---- MODULE Spec2Model ----
(***************************************************************************)
(* The exchange client of src/src/binance_orders.rs and src/src/error.rs   *)
(* as a state machine: one operation is invoked by the strategy, runs with *)
(* an explicit call stack (the #[async_recursion] functions), talks to a   *)
(* nondeterministic exchange over a transport that may lose a request or   *)
(* its response, and ends by returning a value or ending the process.      *)
(*                                                                         *)
(* Units: order prices are integers in 1/1000 dollar, ticker prices whole  *)
(* dollars, quantities integers in 1/1000 BTC, time in clock ticks (ms).   *)
(***************************************************************************)
EXTENDS Integers, Sequences, FiniteSets, TLC

VARIABLES
    stack,          \* call stack of the running operation, top is the last frame
    proc,           \* "idle" | "running" | "returned" | "exited" | "panicked"
    exit_code,      \* process exit status once proc is "exited" or "panicked"
    result,         \* value the invoked operation returned to the strategy
    last_order_id,  \* the caller's u64 passed as &mut to the order operations
    clock,          \* SystemTime::now() in ms
    wire,           \* every request put on the wire, with what happened to it
    accepted,       \* order ids the exchange created during this run
    faults          \* transport failures and E03/E07/E08 answers so far

vars == <<stack, proc, exit_code, result, last_order_id, clock, wire, accepted, faults>>

----------------------------------------------------------------------------
(* Bounds of the model                                                     *)

\* Transport failures plus E03/E07/E08 answers the environment may produce
\* in one run (the code itself retries without bound).
MaxFaults == 2

(* Program constants                                                       *)

QUANTITY_IN_DOLLAR == 50

ORDER_WOULD_TRIGGER_IMMEDIATELY == "E01: Order would immediately trigger."
ERROR_NOT_MAPPED == "E02: Error not mapped."
ERROR_SERVER_502 == "E03: Error 502, exchange server is in trouble."
ERROR_NOT_VALID_QUANTITY == "E04: The quantity in btc is not valid."
ERROR_NOTHING_TO_CLOSE == "E05: ReduceOnly Order is rejected."
NO_NEED_TO_CHANGE_PS == "E06: No need to change position side."
DNS_ERROR == "E07: Dns error: No such host is known."
RECVWINDOW_ERROR == "E08: Timestamp for this request is outside of the recvWindow"

----------------------------------------------------------------------------
(* Error messages are sequences of tokens: a phrase of the exchange's      *)
(* wording, a full stop, or other text.  String::contains is containment   *)
(* of a contiguous run of tokens, == is equality of the whole sequence.    *)

Contains(msg, pat) ==
    \E i \in 0..(Len(msg) - Len(pat)) :
        \A k \in 1..Len(pat) : msg[i + k] = pat[k]

\* a classification that tests the first phrase with contains as well
error_handler_contains(body) ==
    IF ~body.json THEN "panic"
    ELSE IF Contains(body.msg, <<"Order would immediately trigger", ".">>)
        THEN ORDER_WOULD_TRIGGER_IMMEDIATELY
    ELSE IF Contains(body.msg, <<"502 Bad Gateway">>)
        THEN ERROR_SERVER_502
    ELSE IF Contains(body.msg, <<"ReduceOnly Order is rejected">>)
        THEN ERROR_NOTHING_TO_CLOSE
    ELSE IF Contains(body.msg, <<"No need to change position side">>)
        THEN NO_NEED_TO_CHANGE_PS
    ELSE IF Contains(body.msg, <<"No such host is known", ".">>)
        THEN DNS_ERROR
    ELSE IF Contains(body.msg,
            <<"Timestamp for this request is outside of the recvWindow", ".">>)
        THEN RECVWINDOW_ERROR
    ELSE ERROR_NOT_MAPPED

\* a classification that tests the last phrase without its full stop
error_handler_without_full_stop(body) ==
    IF ~body.json THEN "panic"
    ELSE IF body.msg = <<"Order would immediately trigger", ".">>
        THEN ORDER_WOULD_TRIGGER_IMMEDIATELY
    ELSE IF Contains(body.msg, <<"502 Bad Gateway">>)
        THEN ERROR_SERVER_502
    ELSE IF Contains(body.msg, <<"ReduceOnly Order is rejected">>)
        THEN ERROR_NOTHING_TO_CLOSE
    ELSE IF Contains(body.msg, <<"No need to change position side">>)
        THEN NO_NEED_TO_CHANGE_PS
    ELSE IF Contains(body.msg, <<"No such host is known", ".">>)
        THEN DNS_ERROR
    ELSE IF Contains(body.msg,
            <<"Timestamp for this request is outside of the recvWindow">>)
        THEN RECVWINDOW_ERROR
    ELSE ERROR_NOT_MAPPED

\* a classification that tests the two retryable phrases before the others
error_handler_retry_first(body) ==
    IF ~body.json THEN "panic"
    ELSE IF body.msg = <<"Order would immediately trigger", ".">>
        THEN ORDER_WOULD_TRIGGER_IMMEDIATELY
    ELSE IF Contains(body.msg, <<"No such host is known", ".">>)
        THEN DNS_ERROR
    ELSE IF Contains(body.msg,
            <<"Timestamp for this request is outside of the recvWindow", ".">>)
        THEN RECVWINDOW_ERROR
    ELSE IF Contains(body.msg, <<"502 Bad Gateway">>)
        THEN ERROR_SERVER_502
    ELSE IF Contains(body.msg, <<"ReduceOnly Order is rejected">>)
        THEN ERROR_NOTHING_TO_CLOSE
    ELSE IF Contains(body.msg, <<"No need to change position side">>)
        THEN NO_NEED_TO_CHANGE_PS
    ELSE ERROR_NOT_MAPPED

\* error.rs error_handler: the classification of a failed response's body.
\* "panic" stands for the unwrap() of serde_json::from_str on a body that is
\* not an object with an integer code and a string msg.
error_handler(body) ==
    IF ~body.json THEN "panic"
    ELSE IF body.msg = <<"Order would immediately trigger", ".">>
        THEN ORDER_WOULD_TRIGGER_IMMEDIATELY
    ELSE IF Contains(body.msg, <<"502 Bad Gateway">>)
        THEN ERROR_SERVER_502
    ELSE IF Contains(body.msg, <<"ReduceOnly Order is rejected">>)
        THEN ERROR_NOTHING_TO_CLOSE
    ELSE IF Contains(body.msg, <<"No need to change position side">>)
        THEN NO_NEED_TO_CHANGE_PS
    ELSE IF Contains(body.msg, <<"No such host is known", ".">>)
        THEN DNS_ERROR
    ELSE IF Contains(body.msg,
            <<"Timestamp for this request is outside of the recvWindow", ".">>)
        THEN RECVWINDOW_ERROR
    ELSE ERROR_NOT_MAPPED

----------------------------------------------------------------------------
(* Values passed between functions                                         *)

NoData == [kind |-> "none"]
NoVal == [tag |-> "none", s |-> "", n |-> 0, data |-> NoData]
Str(s) == [tag |-> "str", s |-> s, n |-> 0, data |-> NoData]
OkV(d) == [tag |-> "ok", s |-> "", n |-> 0, data |-> d]
ErrV(e) == [tag |-> "err", s |-> e, n |-> 0, data |-> NoData]
F64(q) == [tag |-> "f64", s |-> "", n |-> q, data |-> NoData]
Unit == [tag |-> "unit", s |-> "", n |-> 0, data |-> NoData]

\* StatusCode::to_string() of 200
StatusOkString == "200 OK"

----------------------------------------------------------------------------
(* Requests                                                                *)

\* A query string, one field per parameter the code can format into it;
\* "-" and -1 stand for a parameter that is not part of the string.
NoParams ==
    [symbol |-> "-", side |-> "-", type |-> "-", stopPrice |-> -1, price |-> -1,
     timeInForce |-> "-", quantity |-> -1, timestamp |-> -1, reduceOnly |-> "-",
     recvWindow |-> -1, positionSide |-> "-", orderId |-> -1,
     dualSidePosition |-> "-", interval |-> "-", startTime |-> -1, endTime |-> -1]

\* get_signature: HMAC-SHA256 of the exact query string under the account
\* secret, a deterministic digest of its input.
get_signature(params) == [hmac_sha256_of |-> params]

\* format!("{}/fapi/.../{path}?{params}&signature={signature}")
Request(method, path, params) ==
    [method |-> method, path |-> path, params |-> params,
     signature |-> get_signature(params)]

NoRequest == [method |-> "-", path |-> "-", params |-> NoParams,
              signature |-> get_signature(NoParams)]

BoolStr(b) == IF b THEN "true" ELSE "false"

\* (Decimal * 100).trunc() / 100 and (Decimal * 10).trunc() / 10 on a
\* positive price in 1/1000 dollar
Trunc2(x) == (x \div 10) * 10
Trunc1(x) == (x \div 100) * 100

\* the URL of test_binance_connection carries no query string and no signature
NoSignature == [unsigned |-> TRUE]

----------------------------------------------------------------------------
(* Responses                                                               *)

NoResponse == [status |-> 0, json |-> FALSE, msg |-> <<>>, data |-> NoData]

\* HTTP 200 with a decoded JSON payload
Ok200(data) == [status |-> 200, json |-> TRUE, msg |-> <<>>, data |-> data]

\* a failed response whose body is {"code": .., "msg": ..}
Failure(msg) == [status |-> 400, json |-> TRUE, msg |-> msg, data |-> NoData]

\* a failed response whose body is not such an object (a gateway's HTML page)
FailurePage == [status |-> 502, json |-> FALSE, msg |-> <<>>, data |-> NoData]

\* The error messages the exchange sends in this model, one per kind of the
\* classification and one that matches no phrase.
ExchangeMessages ==
    { <<"Order would immediately trigger", ".">>,
      <<"502 Bad Gateway">>,
      <<"ReduceOnly Order is rejected", ".">>,
      <<"No need to change position side", ".">>,
      <<"No such host is known", ".">>,
      <<"Timestamp for this request is outside of the recvWindow", ".">>,
      <<"Invalid symbol", ".">> }

\* answers after which the code sends again: they are bounded by MaxFaults
CountedKinds == {ERROR_SERVER_502, DNS_ERROR, RECVWINDOW_ERROR}

\* /fapi/v1/ticker/price payloads (dollars): one that sizes to 0.002 BTC, one
\* that sizes to 0.000
TickerPrices == {25000, 10000000}

\* /fapi/v2/positionRisk payloads: the positionSide of each entry
PositionPayloads ==
    { <<"BOTH">>, <<"LONG", "SHORT">>, <<"SHORT", "LONG">>, <<"BOTH", "BOTH">>,
      <<"NONE", "NONE">> }

----------------------------------------------------------------------------
(* Call frames                                                             *)

NoArgs ==
    [price_order |-> 0, is_buy_order |-> FALSE, is_reduce_only |-> FALSE,
     position_side |-> "None", order_id |-> 0, min_price |-> FALSE]

\* A frame of function fn entered with args; pc "entry" is its first line.
Frame(fn, args) ==
    [fn |-> fn, pc |-> "entry", args |-> args,
     quantity |-> 0,             \* let quantity = calculate_quantity_in_btc(..)
     request |-> NoRequest,      \* let request = format!(..)
     response |-> NoResponse,    \* let result = match client.send() ..
     error |-> "",               \* let error = error_handler(result, None)
     rv |-> NoVal,               \* value of the last awaited call
     ret |-> NoVal,              \* value this frame returns
     monitored |-> FALSE]        \* account_trade_info().await was reached

Top == stack[Len(stack)]

SetTop(f) == [stack EXCEPT ![Len(stack)] = f]

Push(caller, callee) == Append(SetTop(caller), callee)

\* functions that start with calculate_quantity_in_btc(true)
SizedOps == {"new_order", "new_order_limit", "new_order_market", "close_position"}

\* functions that await account_trade_info() once the response is in
MonitoredOps == {"new_order", "new_order_limit", "new_order_market", "cancel_open_order"}

\* functions returning Result<_, String>
ResultOps == {"binance_open_orders", "position_info", "get_candle_last_min"}

\* functions that send one request and act on its response
RequestOps ==
    SizedOps \cup ResultOps \cup
    {"cancel_an_existing_order_and_send_a_new_order", "cancel_all_open_orders",
     "cancel_all_open_orders_without_error_check", "order_status", "get_stop_price",
     "cancel_open_order", "test_binance_connection", "exchange_info", "price_ticker",
     "activate_hedge_mode", "deactivate_hedge_mode", "get_order"}

----------------------------------------------------------------------------
(* The query string each function formats                                  *)

RECV_WINDOW == 50000
ONE_MIN_IN_MILLISECONDS == 60000

\* a mapping that sends every value other than LONG and SHORT to BOTH
new_order_p_side_keeping_both(position_side) ==
    IF position_side \in {"LONG", "SHORT"} THEN position_side ELSE "BOTH"

\* new_order: let mut p_side = "BOTH"; .. "LONG" .. else "SHORT"
new_order_p_side(position_side) ==
    IF position_side # "None"
    THEN IF position_side = "LONG" THEN "LONG" ELSE "SHORT"
    ELSE "BOTH"

\* a snapping that offsets by the side alone
new_order_price_by_side(price_order, is_buy_order, position_side) ==
    IF is_buy_order THEN Trunc2(price_order + 1000) ELSE Trunc2(price_order - 1000)

\* new_order: new_price_order, by position side and is_buy_order
new_order_price(price_order, is_buy_order, position_side) ==
    IF position_side # "None"
    THEN IF position_side = "LONG"
         THEN IF is_buy_order THEN Trunc2(price_order + 1000) ELSE Trunc2(price_order)
         ELSE IF ~is_buy_order THEN Trunc2(price_order - 1000) ELSE Trunc2(price_order)
    ELSE IF is_buy_order THEN Trunc2(price_order + 1000) ELSE Trunc2(price_order - 1000)

buy_or_sell(is_buy_order) == IF is_buy_order THEN "BUY" ELSE "SELL"

\* a query string that carries reduceOnly for every position side
new_order_params_with_reduce_only(a, quantity, timestamp) ==
    [NoParams EXCEPT
       !.symbol = "BTCUSDT", !.side = buy_or_sell(a.is_buy_order),
       !.type = "STOP_MARKET",
       !.stopPrice = new_order_price(a.price_order, a.is_buy_order, a.position_side),
       !.timeInForce = "GTC", !.quantity = quantity, !.timestamp = timestamp,
       !.reduceOnly = BoolStr(a.is_reduce_only), !.recvWindow = RECV_WINDOW,
       !.positionSide = new_order_p_side(a.position_side)]

\* new_order: the two format!() of params; reduceOnly only when p_side is BOTH
new_order_params(a, quantity, timestamp) ==
    LET p_side == new_order_p_side(a.position_side)
        common == [NoParams EXCEPT
                     !.symbol = "BTCUSDT", !.side = buy_or_sell(a.is_buy_order),
                     !.type = "STOP_MARKET",
                     !.stopPrice = new_order_price(a.price_order, a.is_buy_order,
                                                   a.position_side),
                     !.timeInForce = "GTC", !.quantity = quantity,
                     !.timestamp = timestamp, !.recvWindow = RECV_WINDOW,
                     !.positionSide = p_side]
    IN  IF p_side # "BOTH" THEN common
        ELSE [common EXCEPT !.reduceOnly = BoolStr(a.is_reduce_only)]

\* a limit price that is truncated without the offset
new_order_limit_price_no_offset(price_order, is_buy_order, position_side) ==
    Trunc1(price_order)

\* new_order_limit: new_price_order, by position side and is_buy_order
new_order_limit_price(price_order, is_buy_order, position_side) ==
    IF position_side # "None"
    THEN IF position_side = "LONG"
         THEN Trunc1(price_order + 1000)
         ELSE Trunc1(price_order - 1000)
    ELSE IF is_buy_order THEN Trunc1(price_order + 1000) ELSE Trunc1(price_order - 1000)

new_order_limit_params(a, quantity, timestamp) ==
    [NoParams EXCEPT
       !.symbol = "BTCUSDT", !.side = buy_or_sell(a.is_buy_order), !.type = "LIMIT",
       !.price = new_order_limit_price(a.price_order, a.is_buy_order, a.position_side),
       !.timeInForce = "GTC", !.quantity = quantity, !.timestamp = timestamp,
       !.recvWindow = RECV_WINDOW,
       !.positionSide = new_order_p_side(a.position_side)]

\* new_order_market takes position_side: String and formats it as it is
new_order_market_params(a, quantity, timestamp) ==
    [NoParams EXCEPT
       !.symbol = "BTCUSDT", !.side = buy_or_sell(a.is_buy_order), !.type = "MARKET",
       !.quantity = quantity, !.timestamp = timestamp, !.recvWindow = RECV_WINDOW,
       !.positionSide = a.position_side]

\* cancel_an_existing_order_and_send_a_new_order and cancel_open_order
cancel_params(order_id, timestamp) ==
    [NoParams EXCEPT
       !.symbol = "BTCUSDT", !.orderId = order_id, !.timestamp = timestamp,
       !.recvWindow = RECV_WINDOW]

\* cancel_all_open_orders (and the variant without error check)
cancel_all_params(timestamp) ==
    [NoParams EXCEPT !.symbol = "BTCUSDT", !.timestamp = timestamp]

\* order_status, get_stop_price, get_order
order_query_params(order_id, timestamp) ==
    [NoParams EXCEPT
       !.orderId = order_id, !.symbol = "BTCUSDT", !.timestamp = timestamp,
       !.recvWindow = RECV_WINDOW]

\* binance_open_orders, exchange_info, position_info
account_query_params(timestamp) ==
    [NoParams EXCEPT
       !.symbol = "BTCUSDT", !.timestamp = timestamp, !.recvWindow = RECV_WINDOW]

\* price_ticker: format!("symbol={}", symbol), no timestamp
price_ticker_params == [NoParams EXCEPT !.symbol = "BTCUSDT"]

\* close_position: p_side keeps LONG and SHORT, anything else is BOTH
close_position_p_side(position_side) ==
    IF position_side # "None"
    THEN IF position_side = "LONG" THEN "LONG"
         ELSE IF position_side = "SHORT" THEN "SHORT" ELSE "BOTH"
    ELSE "BOTH"

\* close_position: MARKET, replaced by STOP_MARKET/GTC when p_side is BOTH
close_position_params(a, quantity, timestamp) ==
    LET p_side == close_position_p_side(a.position_side)
        market == [NoParams EXCEPT
                     !.symbol = "BTCUSDT", !.side = buy_or_sell(a.is_buy_order),
                     !.type = "MARKET", !.quantity = quantity,
                     !.timestamp = timestamp, !.recvWindow = RECV_WINDOW,
                     !.positionSide = p_side]
    IN  IF p_side = "BOTH"
        THEN [market EXCEPT !.type = "STOP_MARKET", !.timeInForce = "GTC"]
        ELSE market

\* activate_hedge_mode / deactivate_hedge_mode
hedge_mode_params(dual, timestamp) ==
    [NoParams EXCEPT !.dualSidePosition = BoolStr(dual), !.timestamp = timestamp]

\* get_candles.rs get_candle_last_min: the window is read from the clock, the
\* timestamp it also reads is not part of the query string
klines_last_min_params(time_now) ==
    [NoParams EXCEPT
       !.symbol = "BTCUSDT", !.interval = "1m",
       !.startTime = time_now - 2 * ONE_MIN_IN_MILLISECONDS, !.endTime = time_now]

\* The request a frame builds: its method, endpoint and signed query string.
\* now is SystemTime::now(), order_ref the value behind the &mut u64.
BuildRequest(f, now, order_ref) ==
    LET a == f.args
        fn == f.fn
    IN
    CASE fn = "new_order" ->
            Request("POST", "/fapi/v1/order", new_order_params(a, f.rv.n, now))
      [] fn = "new_order_limit" ->
            Request("POST", "/fapi/v1/order", new_order_limit_params(a, f.rv.n, now))
      [] fn = "new_order_market" ->
            Request("POST", "/fapi/v1/order", new_order_market_params(a, f.rv.n, now))
      [] fn = "close_position" ->
            Request("POST", "/fapi/v1/order", close_position_params(a, f.rv.n * 100, now))
      [] fn = "cancel_an_existing_order_and_send_a_new_order" ->
            Request("DELETE", "/fapi/v1/order", cancel_params(order_ref, now))
      [] fn = "cancel_open_order" ->
            Request("DELETE", "/fapi/v1/order", cancel_params(a.order_id, now))
      [] fn \in {"cancel_all_open_orders", "cancel_all_open_orders_without_error_check"} ->
            Request("DELETE", "/fapi/v1/allOpenOrders", cancel_all_params(now))
      [] fn \in {"order_status", "get_stop_price", "get_order"} ->
            Request("GET", "/fapi/v1/order", order_query_params(a.order_id, now))
      [] fn = "test_binance_connection" ->
            [method |-> "GET", path |-> "/fapi/v1/ping", params |-> NoParams,
             signature |-> NoSignature]
      [] fn = "binance_open_orders" ->
            Request("GET", "/fapi/v1/openOrders", account_query_params(now))
      [] fn = "exchange_info" ->
            Request("GET", "/fapi/v1/exchangeInfo", account_query_params(now))
      [] fn = "position_info" ->
            Request("GET", "/fapi/v2/positionRisk", account_query_params(now))
      [] fn = "price_ticker" ->
            Request("GET", "/fapi/v1/ticker/price", price_ticker_params)
      [] fn = "activate_hedge_mode" ->
            Request("POST", "/fapi/v1/positionSide/dual", hedge_mode_params(TRUE, now))
      [] fn = "deactivate_hedge_mode" ->
            Request("POST", "/fapi/v1/positionSide/dual", hedge_mode_params(FALSE, now))
      [] fn = "get_candle_last_min" ->
            Request("GET", "/fapi/v1/klines", klines_last_min_params(now))

----------------------------------------------------------------------------
(* What a function does with the answer: the if/else chain that follows    *)
(* `let status = result.status()`.                                         *)

\* return val
Return(val) ==
    [act |-> "return", val |-> val, store |-> -1, fn |-> "-", args |-> NoArgs,
     then |-> "-"]

\* *last_order_id = id; return val
StoreAndReturn(id, val) ==
    [act |-> "return", val |-> val, store |-> id, fn |-> "-", args |-> NoArgs,
     then |-> "-"]

\* fn(args).await as the value of the function
TailCall(fn, args) ==
    [act |-> "call", val |-> NoVal, store |-> -1, fn |-> fn, args |-> args,
     then |-> "tail"]

\* fn(args).await; val
CallThenReturn(fn, args, val) ==
    [act |-> "call", val |-> val, store |-> -1, fn |-> fn, args |-> args,
     then |-> "discard"]

\* std::process::exit(1)
Exit1 ==
    [act |-> "exit", val |-> NoVal, store |-> -1, fn |-> "-", args |-> NoArgs,
     then |-> "-"]

\* a panic: unwrap() on None or Err
Panic ==
    [act |-> "panic", val |-> NoVal, store |-> -1, fn |-> "-", args |-> NoArgs,
     then |-> "-"]

\* a chain whose retry branch tests the DNS classification alone
RetryableDnsOnly(error) == error = DNS_ERROR

\* else if error == DNS_ERROR || error == RECVWINDOW_ERROR
Retryable(error) == error = DNS_ERROR \/ error = RECVWINDOW_ERROR

\* an accepted order that is returned without storing its id
order_accepted_without_store(response) == Return(Str(StatusOkString))

\* new_order, new_order_limit, new_order_market: if status == StatusCode::OK
order_accepted(response) ==
    StoreAndReturn(response.data.orderId, Str(StatusOkString))

\* a fallback that passes the opposite side to new_order_market
new_order_on_error_other_side(a, error) ==
    IF error = ORDER_WOULD_TRIGGER_IMMEDIATELY
    THEN TailCall("new_order_market",
                  [NoArgs EXCEPT !.is_buy_order = ~a.is_buy_order,
                                 !.position_side = new_order_p_side(a.position_side)])
    ELSE IF error = ERROR_SERVER_502 THEN Return(Str(error))
    ELSE IF Retryable(error) THEN TailCall("new_order", a)
    ELSE Exit1

\* a chain whose retry starts again from the cancel
new_order_on_error_restarting(a, error) ==
    IF error = ORDER_WOULD_TRIGGER_IMMEDIATELY
    THEN TailCall("new_order_market",
                  [NoArgs EXCEPT !.is_buy_order = a.is_buy_order,
                                 !.position_side = new_order_p_side(a.position_side)])
    ELSE IF error = ERROR_SERVER_502 THEN Return(Str(error))
    ELSE IF Retryable(error)
    THEN TailCall("cancel_an_existing_order_and_send_a_new_order", a)
    ELSE Exit1

\* new_order: the chain after `let error = error_handler(result, None).await`
new_order_on_error(a, error) ==
    IF error = ORDER_WOULD_TRIGGER_IMMEDIATELY
    THEN TailCall("new_order_market",
                  [NoArgs EXCEPT !.is_buy_order = a.is_buy_order,
                                 !.position_side = new_order_p_side(a.position_side)])
    ELSE IF error = ERROR_SERVER_502 THEN Return(Str(error))
    ELSE IF Retryable(error) THEN TailCall("new_order", a)
    ELSE Exit1

\* a chain with new_order's fallback branch
new_order_limit_on_error_falling_back(a, error) ==
    IF error = ORDER_WOULD_TRIGGER_IMMEDIATELY
    THEN TailCall("new_order_market",
                  [NoArgs EXCEPT !.is_buy_order = a.is_buy_order,
                                 !.position_side = "BOTH"])
    ELSE IF error = ERROR_SERVER_502 THEN Return(Str(error))
    ELSE IF Retryable(error) THEN TailCall("new_order_limit", a)
    ELSE Exit1

\* a chain whose last branch returns the error instead of exiting
new_order_limit_on_error_returning(a, error) ==
    IF error = ERROR_SERVER_502 THEN Return(Str(error))
    ELSE IF Retryable(error) THEN TailCall("new_order_limit", a)
    ELSE Return(Str(error))

new_order_limit_on_error(a, error) ==
    IF error = ERROR_SERVER_502 THEN Return(Str(error))
    ELSE IF Retryable(error) THEN TailCall("new_order_limit", a)
    ELSE Exit1

new_order_market_on_error(a, error) ==
    IF error = ERROR_SERVER_502 THEN Return(Str(error))
    ELSE IF Retryable(error) THEN TailCall("new_order_market", a)
    ELSE Exit1

\* cancel_an_existing_order_and_send_a_new_order: the cancel got 200
cancel_and_replace_on_ok(a) == TailCall("new_order", a)

\* a chain that places the new order although the cancel was refused
cancel_and_replace_on_error_replacing(a, error) ==
    IF error = ERROR_SERVER_502 THEN Return(Str(error))
    ELSE IF Retryable(error)
    THEN TailCall("cancel_an_existing_order_and_send_a_new_order", a)
    ELSE TailCall("new_order", a)

cancel_and_replace_on_error(a, error) ==
    IF error = ERROR_SERVER_502 THEN Return(Str(error))
    ELSE IF Retryable(error)
    THEN TailCall("cancel_an_existing_order_and_send_a_new_order", a)
    ELSE Exit1

cancel_all_open_orders_on_error(a, error) ==
    IF error = ERROR_SERVER_502 THEN Return(Str(error))
    ELSE IF Retryable(error) THEN TailCall("cancel_all_open_orders", a)
    ELSE Exit1

\* cancel_open_order: on E03 `cancel_open_order(order_id).await; error`
cancel_open_order_on_error(a, error) ==
    IF error = ERROR_SERVER_502
    THEN CallThenReturn("cancel_open_order", a, Str(error))
    ELSE IF Retryable(error) THEN TailCall("cancel_open_order", a)
    ELSE Exit1

\* order_status, get_stop_price, get_order, test_binance_connection,
\* exchange_info, price_ticker: E03 is returned, E07/E08 re-invoke, else exit
query_on_error(fn, a, error) ==
    IF error = ERROR_SERVER_502 THEN Return(Str(error))
    ELSE IF Retryable(error) THEN TailCall(fn, a)
    ELSE Exit1

\* binance_open_orders, position_info, get_candle_last_min: Err(error)
result_query_on_error(fn, a, error) ==
    IF error = ERROR_SERVER_502 THEN Return(ErrV(error))
    ELSE IF Retryable(error) THEN TailCall(fn, a)
    ELSE Exit1

\* a chain without the branch for E05
close_position_on_error_no_noop(a, error) ==
    IF error = ERROR_SERVER_502 THEN Return(Str(error))
    ELSE IF Retryable(error) THEN TailCall("close_position", a)
    ELSE Exit1

close_position_on_error(a, error) ==
    IF error = ERROR_SERVER_502 THEN Return(Str(error))
    ELSE IF error = ERROR_NOTHING_TO_CLOSE
    THEN Return(Str("No position to close. Everything ok."))
    ELSE IF Retryable(error) THEN TailCall("close_position", a)
    ELSE Exit1

\* a chain that returns E03 alone
hedge_mode_on_error_e03_only(fn, a, error) ==
    IF error = ERROR_SERVER_502 THEN Return(Str(error))
    ELSE IF Retryable(error) THEN TailCall(fn, a)
    ELSE Exit1

\* activate_hedge_mode, deactivate_hedge_mode: error.contains("No need to
\* change") is true of NO_NEED_TO_CHANGE_PS alone among error_handler's values
hedge_mode_on_error(fn, a, error) ==
    IF error = ERROR_SERVER_502 \/ error = NO_NEED_TO_CHANGE_PS THEN Return(Str(error))
    ELSE IF Retryable(error) THEN TailCall(fn, a)
    ELSE Exit1

\* a price string that parses as f64, as price_ticker returns data["price"]
PriceString(p) == [tag |-> "str", s |-> "<price>", n |-> p, data |-> NoData]

\* The branch taken when status == 200.
OnOk(f) ==
    LET fn == f.fn
        r == f.response
    IN
    CASE fn \in {"new_order", "new_order_limit", "new_order_market"} ->
            order_accepted(r)
      [] fn = "cancel_an_existing_order_and_send_a_new_order" ->
            cancel_and_replace_on_ok(f.args)
      [] fn = "cancel_all_open_orders" -> Return(Str("No more open orders."))
      [] fn \in {"cancel_open_order", "close_position", "test_binance_connection",
                 "activate_hedge_mode", "deactivate_hedge_mode"} ->
            Return(Str(StatusOkString))
      [] fn \in {"order_status", "get_stop_price", "get_order", "exchange_info"} ->
            Return(Str("<data>"))
      [] fn = "price_ticker" -> Return(PriceString(r.data.price))
      [] fn \in {"binance_open_orders", "position_info", "get_candle_last_min"} ->
            Return(OkV(r.data))

\* The branch taken on any other status, error being error_handler's value.
OnError(f, error) ==
    LET fn == f.fn
        a == f.args
    IN
    CASE fn = "new_order" -> new_order_on_error(a, error)
      [] fn = "new_order_limit" -> new_order_limit_on_error(a, error)
      [] fn = "new_order_market" -> new_order_market_on_error(a, error)
      [] fn = "cancel_an_existing_order_and_send_a_new_order" ->
            cancel_and_replace_on_error(a, error)
      [] fn = "cancel_all_open_orders" -> cancel_all_open_orders_on_error(a, error)
      [] fn = "cancel_open_order" -> cancel_open_order_on_error(a, error)
      [] fn = "close_position" -> close_position_on_error(a, error)
      [] fn \in {"activate_hedge_mode", "deactivate_hedge_mode"} ->
            hedge_mode_on_error(fn, a, error)
      [] fn \in {"order_status", "get_stop_price", "get_order",
                 "test_binance_connection", "exchange_info", "price_ticker"} ->
            query_on_error(fn, a, error)
      [] fn \in ResultOps -> result_query_on_error(fn, a, error)

\* calculate_quantity_in_btc once price_ticker returned: parse::<f64>().unwrap()
\* of the returned string, 50 / price formatted with {:.3} (rounded to the
\* nearest 1/1000), exit(1) on 0.000, then the min_price switch.
calculate_quantity_in_btc(min_price, btc_in_dollar_string) ==
    IF btc_in_dollar_string.s # "<price>" THEN Panic
    ELSE LET btc_in_dollar == btc_in_dollar_string.n
             result_btc == (2 * QUANTITY_IN_DOLLAR * 1000 + btc_in_dollar)
                              \div (2 * btc_in_dollar)
         IN  IF result_btc = 0 THEN Exit1
             ELSE IF min_price THEN Return(F64(1))
             ELSE Return(F64(result_btc))

\* a report that reads the second entry only in the SHORT and LONG branches
account_trade_info_positions_side_first(position_info) ==
    IF position_info.tag # "ok" THEN Panic
    ELSE LET sides == position_info.data.sides IN
         IF Len(sides) < 1 THEN Panic
         ELSE IF sides[1] \in {"SHORT", "LONG"} /\ Len(sides) < 2 THEN Panic
         ELSE IF sides[1] \in {"SHORT", "LONG", "BOTH"}
              THEN [act |-> "call", val |-> NoVal, store |-> -1,
                    fn |-> "binance_open_orders", args |-> NoArgs, then |-> "orders"]
              ELSE Exit1

\* account_trade_info once position_info returned: unwrap() of the Result,
\* get(1).unwrap(), get(0).unwrap(), then the positionSide of the first entry
account_trade_info_positions(position_info) ==
    IF position_info.tag # "ok" THEN Panic
    ELSE LET sides == position_info.data.sides IN
         IF Len(sides) < 2 THEN Panic
         ELSE IF sides[1] \in {"SHORT", "LONG", "BOTH"}
              THEN [act |-> "call", val |-> NoVal, store |-> -1,
                    fn |-> "binance_open_orders", args |-> NoArgs, then |-> "orders"]
              ELSE Exit1

\* account_trade_info once binance_open_orders returned:
\* .unwrap().as_array().unwrap().len()
account_trade_info_orders(open_orders) ==
    IF open_orders.tag # "ok" THEN Panic
    ELSE IF open_orders.data.kind # "array" THEN Panic
    ELSE Return(Unit)

----------------------------------------------------------------------------
(* The exchange and the transport                                          *)

IsOrderSubmission(req) == req.method = "POST" /\ req.path = "/fapi/v1/order"

\* the id the exchange gives the next order it creates
NewOrderId == 8 + Cardinality(accepted)

\* The 200 payloads the exchange may answer a request with.
Payloads(req) ==
    CASE req.path = "/fapi/v1/order" ->
            IF req.method = "POST"
            THEN {[kind |-> "order", orderId |-> NewOrderId]}
            ELSE IF req.params.orderId >= 0
            THEN {[kind |-> "order", orderId |-> req.params.orderId]}
            ELSE {[kind |-> "order", orderId |-> id] : id \in accepted \cup {7}}
      [] req.path = "/fapi/v1/ticker/price" ->
            {[kind |-> "ticker", price |-> p] : p \in TickerPrices}
      [] req.path = "/fapi/v2/positionRisk" ->
            {[kind |-> "positions", sides |-> s] : s \in PositionPayloads}
      [] req.path = "/fapi/v1/openOrders" ->
            {[kind |-> "array", len |-> 1], [kind |-> "object"]}
      [] req.path = "/fapi/v1/klines" -> {[kind |-> "klines", close |-> 25000]}
      [] OTHER -> {[kind |-> "object"]}

\* The error messages the exchange may answer a request with: the rejections
\* of an order only to an order submission, the position-mode one only to a
\* position-mode change, the others to any request.
Messages(req) ==
    {m \in ExchangeMessages :
        CASE error_handler(Failure(m)) \in {ORDER_WOULD_TRIGGER_IMMEDIATELY,
                                           ERROR_NOTHING_TO_CLOSE} ->
                 IsOrderSubmission(req)
          [] error_handler(Failure(m)) = NO_NEED_TO_CHANGE_PS ->
                 req.path = "/fapi/v1/positionSide/dual"
          [] OTHER -> TRUE}

\* Every answer the exchange may give to a request.
Answers(req) ==
    {Ok200(d) : d \in Payloads(req)}
        \cup {Failure(m) : m \in Messages(req)} \cup {FailurePage}

\* an answer that makes the code send again counts against MaxFaults
Counted(r) == r.status # 200 /\ r.json /\ error_handler(r) \in CountedKinds

\* re_send_request: the request it sends for the method string it is given
ReSendRequest(request, method) ==
    IF method = "GET" THEN [request EXCEPT !.method = "GET"]
    ELSE IF method = "POST" THEN [request EXCEPT !.method = "GET"]
    ELSE [request EXCEPT !.method = "DELETE"]

\* What the log keeps of an answer: its status, its classification and the
\* order id of its payload.
Answered(r) ==
    [kind |-> "response", processed |-> TRUE, status |-> r.status,
     error |-> IF r.status = 200 THEN "" ELSE error_handler(r),
     orderId |-> IF r.status = 200 /\ r.data.kind = "order" THEN r.data.orderId ELSE -1]

\* a send that ended in Err(_)
Lost(processed) ==
    [kind |-> "lost", processed |-> processed, status |-> 0, error |-> "", orderId |-> -1]

WireEntry(f, req, resend, outcome) ==
    [req |-> req, fn |-> f.fn, resend |-> resend, depth |-> Len(stack),
     top |-> [fn |-> stack[1].fn, args |-> stack[1].args],
     after_e03 |-> \E i \in 1..Len(stack) : stack[i].error = ERROR_SERVER_502,
     outcome |-> outcome]

\* client.<method>(request).send().await for the top frame: Ok(response), or
\* Err(_) with the request lost before or after the exchange acted on it.
\* What a decision does to the top frame f and to the process.
Apply(d, f, error) ==
    /\ CASE d.act = "return" ->
              /\ stack' = SetTop([f EXCEPT !.ret = d.val, !.pc = "ret", !.error = error])
              /\ last_order_id' = IF d.store >= 0 THEN d.store ELSE last_order_id
              /\ UNCHANGED <<proc, exit_code>>
         [] d.act = "call" ->
              /\ stack' = Push([f EXCEPT !.ret = d.val, !.pc = d.then, !.error = error],
                               Frame(d.fn, d.args))
              /\ UNCHANGED <<proc, exit_code, last_order_id>>
         [] d.act = "exit" ->
              /\ stack' = SetTop([f EXCEPT !.pc = "dead", !.error = error])
              /\ proc' = "exited"
              /\ exit_code' = 1
              /\ UNCHANGED last_order_id
         [] d.act = "panic" ->
              /\ stack' = SetTop([f EXCEPT !.pc = "dead", !.error = error])
              /\ proc' = "panicked"
              /\ exit_code' = 101
              /\ UNCHANGED last_order_id

\* What the function does with the response it holds: the status check, the
\* classification of a failure and the branch taken.
Classified(f) ==
    IF f.fn = "cancel_all_open_orders_without_error_check" \/ f.response.status = 200
    THEN ""
    ELSE LET error == error_handler(f.response) IN
         IF error = "panic" THEN "" ELSE error

\* a status check for which a body that is no error object is E02
DecisionPageUnmapped(f) ==
    IF f.fn = "cancel_all_open_orders_without_error_check" THEN Return(Unit)
    ELSE IF f.response.status = 200 THEN OnOk(f)
    ELSE LET error == error_handler(f.response) IN
         IF error = "panic" THEN OnError(f, ERROR_NOT_MAPPED) ELSE OnError(f, error)

Decision(f) ==
    IF f.fn = "cancel_all_open_orders_without_error_check" THEN Return(Unit)
    ELSE IF f.response.status = 200 THEN OnOk(f)
    ELSE LET error == error_handler(f.response) IN
         IF error = "panic" THEN Panic ELSE OnError(f, error)

\* One send of req by the function of frame f. A function that reports the
\* account awaits account_trade_info before it looks at the response; the
\* others go on to the status check at once.
Transmit(f, req, resend) ==
    /\ clock' = clock + 1
    /\ \/ \E r \in Answers(req) :
            /\ Counted(r) => faults < MaxFaults
            /\ faults' = IF Counted(r) THEN faults + 1 ELSE faults
            /\ accepted' = IF r.status = 200 /\ IsOrderSubmission(req)
                           THEN accepted \cup {r.data.orderId} ELSE accepted
            /\ wire' = Append(wire, WireEntry(f, req, resend, Answered(r)))
            /\ LET g == [f EXCEPT !.response = r] IN
               IF f.fn \in MonitoredOps
               THEN /\ stack' = SetTop([g EXCEPT !.pc = "monitor"])
                    /\ UNCHANGED <<proc, exit_code, last_order_id>>
               ELSE Apply(Decision(g), g, Classified(g))
       \/ \E processed \in IF IsOrderSubmission(req) THEN BOOLEAN ELSE {FALSE} :
            /\ faults < MaxFaults
            /\ faults' = faults + 1
            /\ accepted' = IF processed THEN accepted \cup {NewOrderId} ELSE accepted
            /\ wire' = Append(wire, WireEntry(f, req, resend, Lost(processed)))
            /\ stack' = SetTop([f EXCEPT !.pc = "resend"])
            /\ UNCHANGED <<proc, exit_code, last_order_id>>
    /\ UNCHANGED result

----------------------------------------------------------------------------
(* Actions                                                                 *)

OptionSides == {"None", "LONG", "SHORT", "BOTH"}

\* The calls the strategy can make: function, arguments and, for the functions
\* taking last_order_id: &mut u64, the value behind the reference.
Calls ==
    {[fn |-> "new_order", ref |-> 7,
      args |-> [NoArgs EXCEPT !.price_order = 20000456,
                              !.is_buy_order = (ps \in {"None", "SHORT"}),
                              !.is_reduce_only = (ps \in {"LONG", "SHORT"}),
                              !.position_side = ps]] :
        ps \in OptionSides}
    \cup
    {[fn |-> "cancel_an_existing_order_and_send_a_new_order", ref |-> 7,
      args |-> [NoArgs EXCEPT !.price_order = 20000456, !.is_buy_order = b,
                              !.is_reduce_only = b,
                              !.position_side = IF b THEN "LONG" ELSE "None"]] :
        b \in BOOLEAN}
    \cup
    {[fn |-> "new_order_limit", ref |-> 7,
      args |-> [NoArgs EXCEPT !.price_order = 20000456, !.is_buy_order = b,
                              !.position_side = ps]] :
        b \in BOOLEAN, ps \in {"None", "SHORT"}}
    \cup
    {[fn |-> "new_order_market", ref |-> 7,
      args |-> [NoArgs EXCEPT !.is_buy_order = b, !.position_side = ps]] :
        b \in BOOLEAN, ps \in {"LONG", "BOTH"}}
    \cup
    {[fn |-> "close_position", ref |-> 0,
      args |-> [NoArgs EXCEPT !.is_buy_order = (ps \in {"SHORT", "None"}),
                              !.position_side = ps]] :
        ps \in OptionSides}
    \cup
    {[fn |-> fn, ref |-> 0, args |-> [NoArgs EXCEPT !.order_id = id]] :
        fn \in {"order_status", "get_stop_price", "get_order", "cancel_open_order"},
        id \in {0, 7}}
    \cup
    {[fn |-> "calculate_quantity_in_btc", ref |-> 0,
      args |-> [NoArgs EXCEPT !.min_price = m]] : m \in BOOLEAN}
    \cup
    {[fn |-> fn, ref |-> 0, args |-> NoArgs] :
        fn \in {"cancel_all_open_orders", "cancel_all_open_orders_without_error_check",
                "test_binance_connection", "binance_open_orders", "exchange_info",
                "price_ticker", "position_info", "activate_hedge_mode",
                "deactivate_hedge_mode", "get_candle_last_min", "account_trade_info"}}

\* the strategy calls one function
Invoke(c) ==
    /\ proc = "idle"
    /\ proc' = "running"
    /\ stack' = <<Frame(c.fn, c.args)>>
    /\ last_order_id' = c.ref
    /\ UNCHANGED <<exit_code, result, clock, wire, accepted, faults>>

\* let quantity = calculate_quantity_in_btc(true).await
CallQuantity ==
    /\ proc = "running"
    /\ Top.fn \in SizedOps /\ Top.pc = "entry"
    /\ stack' = Push([Top EXCEPT !.pc = "sized"],
                     Frame("calculate_quantity_in_btc", [NoArgs EXCEPT !.min_price = TRUE]))
    /\ UNCHANGED <<proc, exit_code, result, last_order_id, clock, wire, accepted, faults>>

\* order_status, get_order: if order_id == 0 { return "Invalid Order ID." }
EarlyReturn(f) == f.fn \in {"order_status", "get_order"} /\ f.args.order_id = 0

InvalidOrderId ==
    /\ proc = "running"
    /\ Top.pc = "entry" /\ EarlyReturn(Top)
    /\ stack' = SetTop([Top EXCEPT !.ret = Str("Invalid Order ID."), !.pc = "ret"])
    /\ UNCHANGED <<proc, exit_code, result, last_order_id, clock, wire, accepted, faults>>

\* The function's lines from its locals to the first send: the timestamp is
\* read, the query string formatted and signed, and
\* client.<method>(request.clone()).send().await is run.
Send ==
    /\ proc = "running"
    /\ Top.fn \in RequestOps /\ ~EarlyReturn(Top)
    /\ IF Top.fn \in SizedOps THEN Top.pc = "sized" ELSE Top.pc = "entry"
    /\ LET request == BuildRequest(Top, clock, last_order_id)
           f == [Top EXCEPT !.quantity = IF Top.fn \in SizedOps THEN Top.rv.n ELSE 0,
                            !.request = request]
       IN  Transmit(f, request, FALSE)

\* Err(_) => re_send_request(client, request, method).await
ReSend ==
    /\ proc = "running"
    /\ Top.pc = "resend"
    /\ Transmit(Top, ReSendRequest(Top.request, Top.request.method), TRUE)

\* account_trade_info().await in the order functions
CallMonitor ==
    /\ proc = "running"
    /\ Top.pc = "monitor"
    /\ stack' = Push([Top EXCEPT !.pc = "handle", !.monitored = TRUE],
                     Frame("account_trade_info", NoArgs))
    /\ UNCHANGED <<proc, exit_code, result, last_order_id, clock, wire, accepted, faults>>

\* the status check and what follows it, in the functions that report the
\* account first
Handle ==
    /\ proc = "running"
    /\ Top.fn \in MonitoredOps /\ Top.pc = "handle"
    /\ Apply(Decision(Top), Top, Classified(Top))
    /\ UNCHANGED <<result, clock, wire, accepted, faults>>

\* calculate_quantity_in_btc: price_ticker("BTCUSDT").await
CallTicker ==
    /\ proc = "running"
    /\ Top.fn = "calculate_quantity_in_btc" /\ Top.pc = "entry"
    /\ stack' = Push([Top EXCEPT !.pc = "priced"], Frame("price_ticker", NoArgs))
    /\ UNCHANGED <<proc, exit_code, result, last_order_id, clock, wire, accepted, faults>>

\* calculate_quantity_in_btc: the rest of the function
Quantity ==
    /\ proc = "running"
    /\ Top.fn = "calculate_quantity_in_btc" /\ Top.pc = "priced"
    /\ Apply(calculate_quantity_in_btc(Top.args.min_price, Top.rv), Top, "")
    /\ UNCHANGED <<result, clock, wire, accepted, faults>>

\* account_trade_info: position_info().await
CallPositionInfo ==
    /\ proc = "running"
    /\ Top.fn = "account_trade_info" /\ Top.pc = "entry"
    /\ stack' = Push([Top EXCEPT !.pc = "positions"], Frame("position_info", NoArgs))
    /\ UNCHANGED <<proc, exit_code, result, last_order_id, clock, wire, accepted, faults>>

\* account_trade_info: the position report, then binance_open_orders().await
ReportPositions ==
    /\ proc = "running"
    /\ Top.fn = "account_trade_info" /\ Top.pc = "positions"
    /\ Apply(account_trade_info_positions(Top.rv), Top, "")
    /\ UNCHANGED <<result, clock, wire, accepted, faults>>

\* account_trade_info: the open-order count
ReportOrders ==
    /\ proc = "running"
    /\ Top.fn = "account_trade_info" /\ Top.pc = "orders"
    /\ Apply(account_trade_info_orders(Top.rv), Top, "")
    /\ UNCHANGED <<result, clock, wire, accepted, faults>>

\* a function returns: its value goes to the awaiting frame, or to the strategy
ReturnToCaller ==
    /\ proc = "running"
    /\ Top.pc = "ret"
    /\ LET v == Top.ret
           n == Len(stack)
       IN  IF n = 1
           THEN /\ stack' = <<>>
                /\ result' = v
                /\ proc' = "returned"
           ELSE LET c == stack[n - 1]
                    c2 == CASE c.pc = "tail" -> [c EXCEPT !.ret = v, !.pc = "ret"]
                            [] c.pc = "discard" -> [c EXCEPT !.pc = "ret"]
                            [] OTHER -> [c EXCEPT !.rv = v]
                IN  /\ stack' = [SubSeq(stack, 1, n - 1) EXCEPT ![n - 1] = c2]
                    /\ UNCHANGED <<result, proc>>
    /\ UNCHANGED <<exit_code, last_order_id, clock, wire, accepted, faults>>

Init ==
    /\ stack = <<>>
    /\ proc = "idle"
    /\ exit_code = 0
    /\ result = NoVal
    /\ last_order_id = 0
    /\ clock = 4 * ONE_MIN_IN_MILLISECONDS
    /\ wire = <<>>
    /\ accepted = {}
    /\ faults = 0

Next ==
    \/ \E c \in Calls : Invoke(c)
    \/ CallQuantity
    \/ InvalidOrderId
    \/ Send
    \/ ReSend
    \/ CallMonitor
    \/ Handle
    \/ CallTicker
    \/ Quantity
    \/ CallPositionInfo
    \/ ReportPositions
    \/ ReportOrders
    \/ ReturnToCaller

Spec == Init /\ [][Next]_vars

\* The same program on a runtime that keeps polling the task: a step that can
\* be taken is taken. The transport failures and the answers after which the
\* code sends again are finite in number (MaxFaults).
SpecLive == Spec /\ WF_vars(Next)

----------------------------------------------------------------------------
(* The functions of one step, on their own: the query string an order      *)
(* function formats, the sizing arithmetic and the classification, each    *)
(* applied to inputs drawn in the initial state.                           *)

\* requested prices, in 1/1000 dollar
RequestedPrices ==
    {20000000, 20000456, 20000999, 25000010, 30000050, 999995, 19999001}

\* prices the ticker may quote, in dollars
QuotedPrices ==
    {1, 49, 2000, 16000, 17000, 24000, 25000, 26000, 30000, 49000, 50001, 60000,
     99000, 100001, 10000000}

MessageTokens ==
    {"Order would immediately trigger", ".", "502 Bad Gateway",
     "ReduceOnly Order is rejected", "No need to change position side",
     "No such host is known",
     "Timestamp for this request is outside of the recvWindow", "reached"}

\* message bodies of at most MaxTokens tokens
MaxTokens == 3
MessageBodies == UNION {[1..n -> MessageTokens] : n \in 0..MaxTokens}

\* position_side arguments: None, the three sides and a Some of another string
FormatSides == OptionSides \cup {"long"}

\* a frame of an order function that holds the quantity
\* calculate_quantity_in_btc(true) returned and is about to format its query
FormatInputs ==
    {[Frame(fn, [NoArgs EXCEPT !.price_order = p, !.is_buy_order = b,
                               !.is_reduce_only = ro, !.position_side = ps])
         EXCEPT !.rv = F64(1)] :
        fn \in {"new_order", "new_order_limit", "new_order_market", "close_position"},
        p \in RequestedPrices, b \in BOOLEAN, ro \in BOOLEAN, ps \in FormatSides}

\* a frame of calculate_quantity_in_btc that holds what price_ticker returned
SizingInputs ==
    {[Frame("calculate_quantity_in_btc", [NoArgs EXCEPT !.min_price = m])
         EXCEPT !.pc = "priced", !.rv = v] :
        m \in BOOLEAN,
        v \in {PriceString(q) : q \in QuotedPrices} \cup {Str(ERROR_SERVER_502)}}

\* a frame of error_handler that holds the failed response
ClassifyInputs ==
    {[Frame("error_handler", NoArgs) EXCEPT !.response = r] :
        r \in {Failure(m) : m \in MessageBodies} \cup {FailurePage}}

InitPure ==
    /\ stack \in {<<f>> : f \in FormatInputs \cup SizingInputs \cup ClassifyInputs}
    /\ proc = "applying"
    /\ exit_code = 0
    /\ result = NoVal
    /\ last_order_id = 7
    /\ clock = 4 * ONE_MIN_IN_MILLISECONDS
    /\ wire = <<>>
    /\ accepted = {}
    /\ faults = 0

\* the lines of an order function from its locals to `let request = format!(..)`
FormatRequest ==
    /\ proc = "applying"
    /\ Top.fn \in SizedOps /\ Top.pc = "entry"
    /\ stack' = SetTop([Top EXCEPT !.quantity = Top.rv.n,
                                   !.request = BuildRequest(Top, clock, last_order_id),
                                   !.pc = "formatted"])
    /\ UNCHANGED <<proc, exit_code, result, last_order_id, clock, wire, accepted, faults>>

\* calculate_quantity_in_btc after price_ticker returned
Sizing ==
    /\ proc = "applying"
    /\ Top.fn = "calculate_quantity_in_btc" /\ Top.pc = "priced"
    /\ Apply(calculate_quantity_in_btc(Top.args.min_price, Top.rv), Top, "")
    /\ UNCHANGED <<result, clock, wire, accepted, faults>>

\* error_handler on a failed response
Classify ==
    /\ proc = "applying"
    /\ Top.fn = "error_handler" /\ Top.pc = "entry"
    /\ LET error == error_handler(Top.response) IN
       IF error = "panic" THEN Apply(Panic, Top, "")
       ELSE Apply(Return(Str(error)), Top, "")
    /\ UNCHANGED <<result, clock, wire, accepted, faults>>

NextPure ==
    \/ FormatRequest
    \/ Sizing
    \/ Classify

SpecPure == InitPure /\ [][NextPure]_vars

----------------------------------------------------------------------------
(* The candle resampling of src/src/get_candles.rs, get_candles_max.rs and  *)
(* get_candles_min.rs: an entry point computes how many base candles it     *)
(* needs, a fetch function asks the exchange for the klines of a window     *)
(* that ends now, and the entry point scans them into buckets.  Times are   *)
(* in ms, prices in whole dollars.                                          *)

\* the largest `quantity` an entry point is called with
MaxQuantity == 2

\* f64::MAX, and f64::MIN as its negation: beyond every price
F64_MAX == 2147483647

ResamplerOps ==
    {"get_candle_info", "get_candle_info_max_value", "get_candle_info_min_value",
     "build_candle_w_1hr_close_price", "build_candle_w_1hr_max_price",
     "build_candle_w_1hr_min_price"}

MinuteFetchOps ==
    {"get_some_1m_candle", "get_some_1m_candle_max_value", "get_some_1m_candle_min_value"}

HourFetchOps ==
    {"get_some_1hr_candle", "get_some_1hr_candle_max_value",
     "get_some_1hr_candle_min_value"}

FetchOps == MinuteFetchOps \cup HourFetchOps

\* the arguments of an entry point: quantity and the interval string split
\* into candle_length and period ("5m" is length 5, period "m")
CandleArgs(quantity, length, period) ==
    [quantity |-> quantity, length |-> length, period |-> period]

\* the one-minute or one-hour candle the exchange holds for an open time
KlineData(open_time) ==
    LET k == open_time \div ONE_MIN_IN_MILLISECONDS
        low == 20000 + ((k * 37) % 101)
    IN  [open_time |-> open_time,
         high |-> low + 150 + ((k * 53) % 97),
         low |-> low,
         close |-> low + 50 + ((k * 11) % 89)]

IntervalMillis(interval) ==
    IF interval = "1h" THEN 60 * ONE_MIN_IN_MILLISECONDS ELSE ONE_MIN_IN_MILLISECONDS

\* GET /fapi/v1/klines: the candles of the interval whose open time lies in
\* [startTime, endTime], ascending and without gaps
KlinesInWindow(interval, startTime, endTime) ==
    LET step == IntervalMillis(interval)
        first == ((startTime + step - 1) \div step) * step
        n == IF endTime < first THEN 0 ELSE ((endTime - first) \div step) + 1
    IN  [i \in 1..n |-> KlineData(first + (i - 1) * step)]

\* one_min_quantity of an entry point; -1 stands for
\* panic!("Interval not implemented.")
one_min_quantity(fn, quantity, length, period) ==
    CASE fn = "get_candle_info" ->
            IF period = "m" THEN quantity * length
            ELSE IF period = "h" THEN quantity * 60 * length
            ELSE -1
      [] fn \in {"get_candle_info_max_value", "get_candle_info_min_value"} ->
            IF period = "m" THEN (quantity + 2) * length
            ELSE IF period = "h" THEN (quantity + 2) * 60 * length
            ELSE -1
      [] fn = "build_candle_w_1hr_close_price" ->
            IF period = "h" THEN quantity * length
            ELSE IF period = "d" THEN quantity * 24 * length
            ELSE -1
      [] fn = "build_candle_w_1hr_max_price" ->
            IF period = "h" THEN (quantity + 2) * 60 * length
            ELSE IF period = "d" THEN (quantity + 2) * 60 * 24 * length
            ELSE -1
      [] fn = "build_candle_w_1hr_min_price" ->
            IF period = "h" THEN (quantity + 2) * 60 * length
            ELSE IF period = "d" THEN (quantity + 1) * 60 * 24 * length
            ELSE -1

\* the fetch function an entry point awaits
fetch_function(fn) ==
    CASE fn = "get_candle_info" -> "get_some_1m_candle"
      [] fn = "get_candle_info_max_value" -> "get_some_1m_candle_max_value"
      [] fn = "get_candle_info_min_value" -> "get_some_1m_candle_min_value"
      [] fn = "build_candle_w_1hr_close_price" -> "get_some_1hr_candle"
      [] fn = "build_candle_w_1hr_max_price" -> "get_some_1hr_candle_max_value"
      [] fn = "build_candle_w_1hr_min_price" -> "get_some_1hr_candle_min_value"

\* the divisor of `data_in_seconds % (..) == 0` in an entry point's scan
bucket_modulus(fn, quantity, length, n) ==
    CASE fn = "get_candle_info" -> (n \div quantity) * 60
      [] fn = "build_candle_w_1hr_close_price" -> length * 60 * 60
      [] OTHER -> (n \div (quantity + 2)) * 60

\* a window that is one candle shorter than the quantity asked for
fetch_start_time_short(fn, quantity, time_now) ==
    time_now - (quantity - 1) * IntervalMillis(IF fn \in HourFetchOps THEN "1h" ELSE "1m")

\* start_time of a fetch function
fetch_start_time(fn, quantity, time_now) ==
    CASE fn \in MinuteFetchOps -> time_now - (quantity + 1) * ONE_MIN_IN_MILLISECONDS
      [] fn = "get_some_1hr_candle" -> time_now - (quantity * 60) * ONE_MIN_IN_MILLISECONDS
      [] OTHER -> time_now - quantity * ONE_MIN_IN_MILLISECONDS

\* params of a fetch function: "symbol=BTCUSDT&interval=..&startTime=..&endTime=.."
\* and, in the one-minute high and low variants, "&limit=1500"
klines_params(fn, quantity, time_now) ==
    [symbol |-> "BTCUSDT",
     interval |-> IF fn \in HourFetchOps THEN "1h" ELSE "1m",
     startTime |-> fetch_start_time(fn, quantity, time_now),
     endTime |-> time_now,
     limit |-> IF fn \in {"get_some_1m_candle_max_value", "get_some_1m_candle_min_value"}
               THEN 1500 ELSE -1]

\* the field of KlineData a fetch function maps
kline_price(fn, f) ==
    CASE fn \in {"get_some_1m_candle", "get_some_1hr_candle"} -> f.close
      [] fn \in {"get_some_1m_candle_max_value", "get_some_1hr_candle_max_value"} -> f.high
      [] OTHER -> f.low

\* a fetch function on 200: data.iter().take(quantity) into a BTreeMap keyed
\* by open_time, here the entries in ascending key order
fetch_on_ok(fn, quantity, data) ==
    LET n == IF quantity < Len(data) THEN quantity ELSE Len(data) IN
    Return(OkV([kind |-> "map",
                rows |-> [i \in 1..n |-> [date |-> data[i].open_time,
                                          price |-> kline_price(fn, data[i])]]]))

\* the locals of an entry point's loop: the vector, the running value and the flag
Loop(candles, value, is_opened) ==
    [candles |-> candles, value |-> value, is_opened |-> is_opened]

\* a loop body that keeps the first price of a bucket
close_step_keeping_open(l, entry, modulus) ==
    IF (entry.date \div 1000) % modulus = 0
    THEN Loop(Append(l.candles, entry.price), 0, TRUE)
    ELSE l

\* get_candle_info, build_candle_w_1hr_close_price: the body of the for loop
close_step(l, entry, modulus) ==
    LET price == entry.price
        data_in_seconds == entry.date \div 1000
    IN  IF data_in_seconds % modulus = 0
        THEN Loop(Append(l.candles, price), 0, TRUE)
        ELSE IF l.is_opened
        THEN Loop([l.candles EXCEPT ![Len(l.candles)] = price], 0, TRUE)
        ELSE l

\* get_candle_info_max_value, build_candle_w_1hr_max_price: the body of the
\* for loop; reset is the value max_value is set to after a push
max_step(l, entry, modulus, reset) ==
    LET price == entry.price
        opens == (entry.date \div 1000) % modulus = 0
        pushed == IF opens /\ l.is_opened THEN Append(l.candles, l.value) ELSE l.candles
        max_value == IF opens /\ l.is_opened THEN reset ELSE l.value
    IN  Loop(pushed, IF price > max_value THEN price ELSE max_value, l.is_opened \/ opens)

\* get_candle_info_min_value, build_candle_w_1hr_min_price: the same with
\* min_value
min_step(l, entry, modulus, reset) ==
    LET price == entry.price
        opens == (entry.date \div 1000) % modulus = 0
        pushed == IF opens /\ l.is_opened THEN Append(l.candles, l.value) ELSE l.candles
        min_value == IF opens /\ l.is_opened THEN reset ELSE l.value
    IN  Loop(pushed, IF price < min_value THEN price ELSE min_value, l.is_opened \/ opens)

\* `for (date, price) in candle_1m` over the entries lo..hi in key order,
\* starting with the locals l: the first half, then the second (the test on
\* first_half has the first half evaluated before the second is entered)
RECURSIVE close_scan(_, _, _, _, _)
close_scan(candle_1m, modulus, lo, hi, l) ==
    IF lo > hi THEN l
    ELSE IF lo = hi THEN close_step(l, candle_1m[lo], modulus)
    ELSE LET mid == (lo + hi) \div 2
             first_half == close_scan(candle_1m, modulus, lo, mid, l)
         IN  IF Len(first_half.candles) >= 0
             THEN close_scan(candle_1m, modulus, mid + 1, hi, first_half)
             ELSE first_half

RECURSIVE max_scan(_, _, _, _, _, _)
max_scan(candle_1m, modulus, lo, hi, l, reset) ==
    IF lo > hi THEN l
    ELSE IF lo = hi THEN max_step(l, candle_1m[lo], modulus, reset)
    ELSE LET mid == (lo + hi) \div 2
             first_half == max_scan(candle_1m, modulus, lo, mid, l, reset)
         IN  IF Len(first_half.candles) >= 0
             THEN max_scan(candle_1m, modulus, mid + 1, hi, first_half, reset)
             ELSE first_half

RECURSIVE min_scan(_, _, _, _, _, _)
min_scan(candle_1m, modulus, lo, hi, l, reset) ==
    IF lo > hi THEN l
    ELSE IF lo = hi THEN min_step(l, candle_1m[lo], modulus, reset)
    ELSE LET mid == (lo + hi) \div 2
             first_half == min_scan(candle_1m, modulus, lo, mid, l, reset)
         IN  IF Len(first_half.candles) >= 0
             THEN min_scan(candle_1m, modulus, mid + 1, hi, first_half, reset)
             ELSE first_half

\* `if is_opened { candles.push(value) }` after the loop
push_last(l) == IF l.is_opened THEN Append(l.candles, l.value) ELSE l.candles

\* Ok(candles)
OkCandles(candles) == Return(OkV([kind |-> "vec", candles |-> candles]))

\* candles.remove(0); candles.pop(): remove panics on an empty vector
remove_then_pop(candles) ==
    IF Len(candles) = 0 THEN Panic
    ELSE OkCandles(SubSeq(candles, 2, Len(candles) - 1))

\* candles.pop(); candles.remove(0)
pop_then_remove(candles) ==
    IF Len(candles) <= 1 THEN Panic
    ELSE OkCandles(SubSeq(candles, 2, Len(candles) - 1))

\* failure branches that all hand the fetch's failure on
resample_on_failure_unchanged(fn, err) == Return(ErrV(err))

\* an entry point whose fetch returned Err(err)
resample_on_failure(fn, err) ==
    CASE fn = "build_candle_w_1hr_close_price" -> Return(ErrV(err))
      [] fn \in {"get_candle_info", "get_candle_info_max_value"} ->
            Return(ErrV("Failed to retrieve candles"))
      [] OTHER -> Return(ErrV("Failed to retrieve 1-hour candles"))

\* an entry point from `if let Ok(candle_1m) = candle_1m_result` to its end;
\* n is its one_min_quantity
resample(fn, a, n, candle_1m_result) ==
    IF candle_1m_result.tag # "ok" THEN resample_on_failure(fn, candle_1m_result.s)
    ELSE LET candle_1m == candle_1m_result.data.rows
             modulus == bucket_modulus(fn, a.quantity, a.length, n)
         IN
         CASE fn \in {"get_candle_info", "build_candle_w_1hr_close_price"} ->
                 OkCandles(close_scan(candle_1m, modulus, 1, Len(candle_1m),
                                      Loop(<<>>, 0, FALSE)).candles)
           [] fn = "get_candle_info_max_value" ->
                 remove_then_pop(push_last(
                     max_scan(candle_1m, modulus, 1, Len(candle_1m),
                              Loop(<<>>, 0, FALSE), -F64_MAX)))
           [] fn = "build_candle_w_1hr_max_price" ->
                 remove_then_pop(push_last(
                     max_scan(candle_1m, modulus, 1, Len(candle_1m),
                              Loop(<<>>, 0, FALSE), 0)))
           [] fn = "get_candle_info_min_value" ->
                 remove_then_pop(push_last(
                     min_scan(candle_1m, modulus, 1, Len(candle_1m),
                              Loop(<<>>, 0, FALSE), F64_MAX)))
           [] fn = "build_candle_w_1hr_min_price" ->
                 pop_then_remove(push_last(
                     min_scan(candle_1m, modulus, 1, Len(candle_1m),
                              Loop(<<>>, F64_MAX, FALSE), F64_MAX)))

\* Every answer the exchange may give to a klines request.
KlinesAnswers(req) ==
    {Ok200([kind |-> "klines",
            rows |-> KlinesInWindow(req.params.interval, req.params.startTime,
                                    req.params.endTime)])}
        \cup {Failure(m) : m \in Messages(req)} \cup {FailurePage}

\* a fetch function from `if result.status() == StatusCode::OK` to its end
FetchDecision(f) ==
    IF f.response.status = 200
    THEN fetch_on_ok(f.fn, f.args.quantity, f.response.data.rows)
    ELSE LET error == error_handler(f.response) IN
         IF error = "panic" THEN Panic ELSE result_query_on_error(f.fn, f.args, error)

\* One send of req by the fetch function of frame f.
TransmitKlines(f, req, resend) ==
    /\ clock' = clock + 1
    /\ \/ \E r \in KlinesAnswers(req) :
            /\ Counted(r) => faults < MaxFaults
            /\ faults' = IF Counted(r) THEN faults + 1 ELSE faults
            /\ wire' = Append(wire, WireEntry(f, req, resend, Answered(r)))
            /\ LET g == [f EXCEPT !.response = r] IN
               Apply(FetchDecision(g), g, Classified(g))
       \/ /\ faults < MaxFaults
          /\ faults' = faults + 1
          /\ wire' = Append(wire, WireEntry(f, req, resend, Lost(FALSE)))
          /\ stack' = SetTop([f EXCEPT !.pc = "resend"])
          /\ UNCHANGED <<proc, exit_code, last_order_id>>
    /\ UNCHANGED <<result, accepted>>

\* the intervals the entry points are called with, as (length, period)
Intervals == {<<2, "m">>, <<5, "m">>, <<1, "h">>, <<2, "h">>, <<1, "d">>}

\* The calls the strategy can make to the candle functions.
CandleCalls ==
    {[fn |-> fn, args |-> CandleArgs(q, i[1], i[2])] :
        fn \in {"get_candle_info", "get_candle_info_max_value",
                "get_candle_info_min_value"},
        q \in 1..MaxQuantity, i \in Intervals \ {<<2, "h">>}}
    \cup
    {[fn |-> fn, args |-> CandleArgs(q, i[1], i[2])] :
        fn \in {"build_candle_w_1hr_close_price", "build_candle_w_1hr_max_price",
                "build_candle_w_1hr_min_price"},
        q \in 1..MaxQuantity, i \in Intervals \ {<<2, "m">>, <<1, "h">>}}
    \cup
    {[fn |-> fn, args |-> CandleArgs(q, 0, "-")] :
        fn \in MinuteFetchOps, q \in {MaxQuantity, 10}}

\* a time that opens a minute, an hour, a day and every bucket of Intervals
Epoch == 864000000

\* Utc::now() at the call: on a boundary, 1 ms past it, a minute past it, ..
Nows == {Epoch + o : o \in {0, 1, 60000, 90000, 3600000, 41454321}}

\* the strategy calls one candle function
InvokeCandles(c) ==
    /\ proc = "idle"
    /\ proc' = "running"
    /\ stack' = <<Frame(c.fn, c.args)>>
    /\ UNCHANGED <<exit_code, result, last_order_id, clock, wire, accepted, faults>>

\* an entry point from its first line to get_some_..._candle(one_min_quantity).await
CallFetch ==
    /\ proc = "running"
    /\ Top.fn \in ResamplerOps /\ Top.pc = "entry"
    /\ LET a == Top.args
           n == one_min_quantity(Top.fn, a.quantity, a.length, a.period)
       IN  IF n < 0
           THEN Apply(Panic, Top, "")
           ELSE /\ stack' = Push([Top EXCEPT !.pc = "fetched", !.quantity = n],
                                 Frame(fetch_function(Top.fn), CandleArgs(n, 0, "-")))
                /\ UNCHANGED <<proc, exit_code, last_order_id>>
    /\ UNCHANGED <<result, clock, wire, accepted, faults>>

\* a fetch function from its first line to the end of its response handling
FetchKlines ==
    /\ proc = "running"
    /\ Top.fn \in FetchOps /\ Top.pc = "entry"
    /\ LET request == Request("GET", "/fapi/v1/klines",
                              klines_params(Top.fn, Top.args.quantity, clock))
       IN  TransmitKlines([Top EXCEPT !.request = request], request, FALSE)

\* Err(_) => re_send_request(client, request, "GET").await in a fetch function
ReSendKlines ==
    /\ proc = "running"
    /\ Top.fn \in FetchOps /\ Top.pc = "resend"
    /\ TransmitKlines(Top, ReSendRequest(Top.request, "GET"), TRUE)

\* an entry point once its fetch returned
Resample ==
    /\ proc = "running"
    /\ Top.fn \in ResamplerOps /\ Top.pc = "fetched" /\ Top.rv # NoVal
    /\ Apply(resample(Top.fn, Top.args, Top.quantity, Top.rv), Top, "")
    /\ UNCHANGED <<result, clock, wire, accepted, faults>>

InitCandles ==
    /\ stack = <<>>
    /\ proc = "idle"
    /\ exit_code = 0
    /\ result = NoVal
    /\ last_order_id = 0
    /\ clock \in Nows
    /\ wire = <<>>
    /\ accepted = {}
    /\ faults = 0

NextCandles ==
    \/ \E c \in CandleCalls : InvokeCandles(c)
    \/ CallFetch
    \/ FetchKlines
    \/ ReSendKlines
    \/ Resample
    \/ ReturnToCaller

SpecCandles == InitCandles /\ [][NextCandles]_vars

----------------------------------------------------------------------------
(* Properties                                                              *)

Entries == 1..Len(wire)
Frames == 1..Len(stack)

RetryKinds == {DNS_ERROR, RECVWINDOW_ERROR}
OrderOps == {"new_order", "new_order_limit", "new_order_market"}
CancelAndReplace == "cancel_an_existing_order_and_send_a_new_order"

\* the request was answered with a failure of classification `kind`
AnsweredAs(i, kind) ==
    wire[i].outcome.kind = "response" /\ wire[i].outcome.status # 200
        /\ wire[i].outcome.error = kind

\* entry j is a request of the invocation that re-invokes the one of entry i
ReInvocationOf(i, j) ==
    i < j /\ wire[j].fn = wire[i].fn /\ wire[j].depth = wire[i].depth + 1

\* C1 (as stated): a function that classified a response as E03 returns E03
\* and no request is sent while a function that classified E03 is still
\* running.
C1_ServerUnavailableReturned ==
    /\ \A i \in Entries : ~wire[i].after_e03
    /\ \A k \in Frames :
          stack[k].error = ERROR_SERVER_502 =>
              stack[k].pc = "ret" /\ stack[k].ret \in {Str(ERROR_SERVER_502),
                                                     ErrV(ERROR_SERVER_502)}

\* C2 (as stated): a request sent again after a transport failure is the
\* request that failed, method included.
C2_ResentRequestIdentical ==
    \A i \in Entries :
        wire[i].resend =>
            /\ i > 1
            /\ wire[i - 1].outcome.kind = "lost"
            /\ wire[i].req = wire[i - 1].req

\* C3 (as stated): when an order function returns "200 OK" after a send of an
\* order request failed in transport, the exchange has created at most one
\* order.
C3_OrderAcceptedAtMostOnce ==
    ( /\ proc = "returned"
      /\ result = Str(StatusOkString)
      /\ \E i \in Entries : wire[i].outcome.kind = "lost" /\ wire[i].fn \in OrderOps )
        => Cardinality(accepted) <= 1

HasTimestamp(req) == req.params.timestamp >= 0

HandledKinds(fn) ==
    RetryKinds \cup {ERROR_SERVER_502}
        \cup (IF fn = "new_order" THEN {ORDER_WOULD_TRIGGER_IMMEDIATELY} ELSE {})
        \cup (IF fn = "close_position" THEN {ERROR_NOTHING_TO_CLOSE} ELSE {})
        \cup (IF fn \in {"activate_hedge_mode", "deactivate_hedge_mode"}
              THEN {NO_NEED_TO_CHANGE_PS} ELSE {})

\* the request of entry i got a failed response the function has no branch for
Unhandled(i) ==
    /\ wire[i].outcome.kind = "response"
    /\ wire[i].outcome.status # 200
    /\ wire[i].outcome.error \notin HandledKinds(wire[i].fn)

\* after the answer of entry i nothing is returned, no order or cancel request
\* is sent, and once the function has looked at the response the process has
\* ended with a non-zero status
TerminatesAfter(i) ==
    /\ proc \in {"running", "exited", "panicked"}
    /\ result = NoVal
    /\ \A j \in Entries : j > i => wire[j].req.method = "GET"
    /\ proc = "running" =>
          /\ wire[i].fn \in MonitoredOps
          /\ Len(stack) >= wire[i].depth
          /\ stack[wire[i].depth].pc \in {"monitor", "handle"}
    /\ proc # "running" => exit_code # 0

\* C5 (as stated): a failed response with a classification the function has
\* no branch for ends the process with a non-zero status, in every function.
C5_UnhandledTerminates ==
    \A i \in Entries : Unhandled(i) => TerminatesAfter(i)

\* C5 (amended): the same, in every function but
\* cancel_all_open_orders_without_error_check, which never reads the response.
C5_UnhandledTerminatesWhereChecked ==
    \A i \in Entries :
        (Unhandled(i) /\ wire[i].fn # "cancel_all_open_orders_without_error_check")
            => TerminatesAfter(i)

\* C5 witness: new_order_limit got an E02 answer, the account was reported and
\* the process exited with status 1.
C5_Witness ==
    /\ proc = "exited" /\ exit_code = 1
    /\ \E i \in Entries :
          /\ wire[i].fn = "new_order_limit"
          /\ AnsweredAs(i, ERROR_NOT_MAPPED)
          /\ stack[wire[i].depth].monitored
          /\ stack[wire[i].depth].pc = "dead"

\* C6: when new_order classified the answer to its stop order as E01 it calls
\* new_order_market and returns what that call returns, never E01; every
\* request of that market order has type MARKET and the side and positionSide
\* of the rejected stop order.
C6_FallbackKeepsSide ==
    /\ \A k \in Frames :
          (stack[k].fn = "new_order"
              /\ stack[k].error = ORDER_WOULD_TRIGGER_IMMEDIATELY) =>
              /\ stack[k].pc \in {"tail", "ret"}
              /\ stack[k].pc = "tail" =>
                    k < Len(stack) /\ stack[k + 1].fn = "new_order_market"
              /\ stack[k].pc = "ret" =>
                    stack[k].ret \in {Str(StatusOkString), Str(ERROR_SERVER_502)}
    /\ \A i, j \in Entries :
          ( /\ i < j
            /\ wire[i].fn = "new_order"
            /\ AnsweredAs(i, ORDER_WOULD_TRIGGER_IMMEDIATELY)
            /\ wire[j].fn = "new_order_market" ) =>
              /\ wire[j].req.params.type = "MARKET"
              /\ wire[j].req.params.side = wire[i].req.params.side
              /\ wire[j].req.params.positionSide = wire[i].req.params.positionSide
    /\ proc = "returned" => result # Str(ORDER_WOULD_TRIGGER_IMMEDIATELY)

\* C6 witness: a stop order was answered E01, the market order that followed
\* was accepted and new_order returned "200 OK".
C6_Witness ==
    /\ proc = "returned" /\ result = Str(StatusOkString)
    /\ \E i, j \in Entries :
          /\ i < j
          /\ wire[i].fn = "new_order"
          /\ AnsweredAs(i, ORDER_WOULD_TRIGGER_IMMEDIATELY)
          /\ wire[j].fn = "new_order_market"
          /\ wire[j].req.method = "POST"
          /\ wire[j].outcome.status = 200

\* C7: under cancel_an_existing_order_and_send_a_new_order, new_order runs
\* only below an invocation whose cancel got 200, with that invocation's
\* arguments; an invocation whose cancel failed calls nothing but itself; and
\* every stop-order request is the one new_order builds from the arguments of
\* the call.
C7_ReplaceOnlyAfterCancel ==
    /\ \A k \in Frames :
          (k < Len(stack) /\ stack[k].fn = CancelAndReplace
              /\ stack[k + 1].fn = "new_order") =>
              /\ stack[k].response.status = 200
              /\ stack[k + 1].args = stack[k].args
    /\ \A k \in Frames :
          ( /\ stack[k].fn = CancelAndReplace
            /\ stack[k].response # NoResponse
            /\ stack[k].response.status # 200 ) =>
              k = Len(stack) \/ stack[k + 1].fn = CancelAndReplace
    /\ \A j \in Entries :
          (wire[j].top.fn = CancelAndReplace /\ wire[j].fn = "new_order") =>
              /\ \E i \in Entries :
                    /\ i < j
                    /\ wire[i].fn = CancelAndReplace
                    /\ wire[i].outcome.status = 200
                    /\ \A m \in Entries :
                          (i < m /\ m < j) => wire[m].fn # CancelAndReplace
              /\ wire[j].req.params =
                    new_order_params(wire[j].top.args, wire[j].req.params.quantity,
                                     wire[j].req.params.timestamp)

\* C7 witness: the cancel got 200, the stop order that replaced it was
\* accepted and the call returned.
C7_Witness ==
    /\ proc = "returned"
    /\ \E i, j \in Entries :
          /\ i < j
          /\ wire[i].fn = CancelAndReplace /\ wire[i].outcome.status = 200
          /\ wire[j].fn = "new_order" /\ wire[j].req.method = "POST"
          /\ wire[j].outcome.status = 200

\* C8 (as stated): once an order function got 200 for its order, the process
\* does not end before the function returns, and the call returns "200 OK"
\* with last_order_id set to the orderId of an accepted response.
C8_AcceptedOrderReturned ==
    \A i \in Entries :
        (wire[i].fn \in OrderOps /\ wire[i].outcome.status = 200) =>
            /\ proc \in {"running", "returned"}
            /\ proc = "returned" =>
                  /\ result = Str(StatusOkString)
                  /\ last_order_id = wire[i].outcome.orderId

\* C9 (as stated): once a request made under new_order was answered E03, the
\* process does not end and the call returns the E03 string.
C9_ServerUnavailableSurfaced ==
    \A i \in Entries :
        (wire[i].top.fn = "new_order" /\ AnsweredAs(i, ERROR_SERVER_502)) =>
            /\ proc \in {"running", "returned"}
            /\ proc = "returned" => result = Str(ERROR_SERVER_502)
            /\ \A j \in Entries : j > i => wire[j].fn \notin OrderOps

MutatingOps ==
    OrderOps \cup {"cancel_open_order", "cancel_all_open_orders", CancelAndReplace}

\* C10 (as stated): a mutating function that has looked at the answer to its
\* request has called account_trade_info before.
C10_MonitorAfterEveryMutation ==
    \A k \in Frames :
        ( /\ stack[k].fn \in MutatingOps
          /\ stack[k].response # NoResponse
          /\ stack[k].pc # "monitor" ) => stack[k].monitored

\* C11 (as stated): the process never ends while an order function waits for
\* account_trade_info, so what the function returns and stores depends on the
\* answer to its own request alone.
C11_MonitorNeverEndsProcess ==
    \A k \in Frames :
        (stack[k].fn \in OrderOps /\ stack[k].pc = "handle") => proc = "running"

\* the frame of an order function that has formatted its query
Formatted(k, fn) == stack[k].fn = fn /\ stack[k].pc = "formatted"

\* C12 (as stated): the stopPrice of a stop order is the requested price plus
\* 1 for a buy and minus 1 for a sell, truncated to 2 decimals, for every
\* position side.
C12_StopPriceOffsetBySide ==
    \A k \in Frames :
        Formatted(k, "new_order") =>
            stack[k].request.params.stopPrice =
                IF stack[k].args.is_buy_order
                THEN Trunc2(stack[k].args.price_order + 1000)
                ELSE Trunc2(stack[k].args.price_order - 1000)

\* the offset new_order applies (1/1000 dollar)
StopOffset(is_buy_order, position_side) ==
    CASE position_side = "None" -> IF is_buy_order THEN 1000 ELSE -1000
      [] position_side = "LONG" -> IF is_buy_order THEN 1000 ELSE 0
      [] OTHER -> IF is_buy_order THEN 0 ELSE -1000

\* C12 (amended): the stopPrice is the requested price truncated to 2
\* decimals after an offset of +1 for a buy with no position side or LONG,
\* -1 for a sell with no position side or a side other than LONG, and no
\* offset for a sell under LONG and a buy under any other given side.
C12_StopPriceOffsetByPosition ==
    \A k \in Frames :
        Formatted(k, "new_order") =>
            stack[k].request.params.stopPrice =
                Trunc2(stack[k].args.price_order
                         + StopOffset(stack[k].args.is_buy_order,
                                      stack[k].args.position_side))

\* C12 witness: a sell under LONG for 20000.456 is submitted at 20000.45, and
\* a buy with no position side for 20000.0 at 20001.00.
C12_Witness ==
    \E k \in Frames :
        /\ Formatted(k, "new_order")
        /\ \/ /\ stack[k].args.position_side = "LONG"
              /\ ~stack[k].args.is_buy_order
              /\ stack[k].args.price_order = 20000456
              /\ stack[k].request.params.stopPrice = 20000450
           \/ /\ stack[k].args.position_side = "None"
              /\ stack[k].args.is_buy_order
              /\ stack[k].args.price_order = 20000000
              /\ stack[k].request.params.stopPrice = 20001000

\* C13 (as stated): the price of a limit order is the requested price
\* truncated to 1 decimal, with no offset.
C13_LimitPriceNoOffset ==
    \A k \in Frames :
        Formatted(k, "new_order_limit") =>
            stack[k].request.params.price = Trunc1(stack[k].args.price_order)

\* C13 (amended): the price of a limit order is the requested price plus 1
\* under LONG or for a buy with no position side, minus 1 otherwise,
\* truncated to 1 decimal.
C13_LimitPriceOffset ==
    \A k \in Frames :
        Formatted(k, "new_order_limit") =>
            stack[k].request.params.price =
                IF stack[k].args.position_side = "LONG"
                      \/ (stack[k].args.position_side = "None"
                            /\ stack[k].args.is_buy_order)
                THEN Trunc1(stack[k].args.price_order + 1000)
                ELSE Trunc1(stack[k].args.price_order - 1000)

\* C13 witness: a limit sell under SHORT for 20000.456 is submitted at 19999.4.
C13_Witness ==
    \E k \in Frames :
        /\ Formatted(k, "new_order_limit")
        /\ stack[k].args.position_side = "SHORT"
        /\ ~stack[k].args.is_buy_order
        /\ stack[k].args.price_order = 20000456
        /\ stack[k].request.params.price = 19999400

\* C14: under new_order_limit every request to /fapi/v1/order is a LIMIT
\* request of new_order_limit, new_order_market is never called, and a frame
\* that classified E01 has ended the process.
C14_LimitHasNoFallback ==
    /\ \A i \in Entries :
          wire[i].top.fn = "new_order_limit" =>
              /\ wire[i].fn \in {"new_order_limit", "price_ticker", "position_info",
                                 "binance_open_orders"}
              /\ wire[i].req.path = "/fapi/v1/order" =>
                    wire[i].fn = "new_order_limit" /\ wire[i].req.params.type = "LIMIT"
    /\ \A k \in Frames :
          stack[k].fn = "new_order_limit" =>
              /\ k < Len(stack) =>
                    stack[k + 1].fn \in {"new_order_limit", "calculate_quantity_in_btc",
                                         "account_trade_info"}
              /\ stack[k].error = ORDER_WOULD_TRIGGER_IMMEDIATELY =>
                    stack[k].pc = "dead" /\ proc = "exited"

\* C14 witness: a limit order was answered E01 and the process exited.
C14_Witness ==
    /\ proc = "exited"
    /\ \E i \in Entries :
          /\ wire[i].fn = "new_order_limit"
          /\ AnsweredAs(i, ORDER_WOULD_TRIGGER_IMMEDIATELY)
          /\ stack[wire[i].depth].error = ORDER_WOULD_TRIGGER_IMMEDIATELY

\* a frame of calculate_quantity_in_btc that was given a price and is done
Sized(k) ==
    /\ stack[k].fn = "calculate_quantity_in_btc"
    /\ stack[k].rv.s = "<price>"
    /\ stack[k].pc # "priced" /\ stack[k].pc # "entry"

\* 50 / price cut to 3 decimals, in 1/1000 BTC
TruncatedQuantity(price) == (QUANTITY_IN_DOLLAR * 1000) \div price

\* C15 (as stated): calculate_quantity_in_btc(false) returns 50 / price cut
\* to three decimals.
C15_QuantityTruncated ==
    \A k \in Frames :
        (Sized(k) /\ ~stack[k].args.min_price /\ stack[k].pc = "ret") =>
            stack[k].ret = F64(TruncatedQuantity(stack[k].rv.n))

\* C16 (as stated): sizing ends the process exactly when 50 / price cut to
\* three decimals is 0, for both values of min_price.
C16_SizingFailsOnZero ==
    \A k \in Frames :
        Sized(k) =>
            ((TruncatedQuantity(stack[k].rv.n) = 0) <=> (proc = "exited"))

\* C17: close_position that classified E05 returns "No position to close.
\* Everything ok." at once: no request follows and the process goes on.
C17_NothingToCloseIsNoOp ==
    /\ \A k \in Frames :
          (stack[k].fn = "close_position"
              /\ stack[k].error = ERROR_NOTHING_TO_CLOSE) =>
              /\ stack[k].pc = "ret"
              /\ stack[k].ret = Str("No position to close. Everything ok.")
    /\ \A i \in Entries :
          (wire[i].fn = "close_position" /\ AnsweredAs(i, ERROR_NOTHING_TO_CLOSE)) =>
              /\ i = Len(wire)
              /\ proc \in {"running", "returned"}
              /\ proc = "returned" =>
                    result = Str("No position to close. Everything ok.")

\* C17 witness: close_position was answered E05 and returned the no-op text.
C17_Witness ==
    /\ proc = "returned"
    /\ result = Str("No position to close. Everything ok.")
    /\ Len(wire) > 0
    /\ wire[Len(wire)].fn = "close_position"
    /\ AnsweredAs(Len(wire), ERROR_NOTHING_TO_CLOSE)

\* C18 (as stated): the order close_position formats has type MARKET and the
\* side of is_buy_order, for every position side.
C18_CloseIsMarketOrder ==
    \A k \in Frames :
        Formatted(k, "close_position") =>
            /\ stack[k].request.params.type = "MARKET"
            /\ stack[k].request.params.side =
                  (IF stack[k].args.is_buy_order THEN "BUY" ELSE "SELL")

HedgeOps == {"activate_hedge_mode", "deactivate_hedge_mode"}

\* C19: a hedge-mode function that classified E06 returns the E06 message at
\* once: no request follows and the process goes on.
C19_NoNeedToChangeIsBenign ==
    /\ \A k \in Frames :
          (stack[k].fn \in HedgeOps /\ stack[k].error = NO_NEED_TO_CHANGE_PS) =>
              /\ stack[k].pc = "ret"
              /\ stack[k].ret = Str(NO_NEED_TO_CHANGE_PS)
    /\ \A i \in Entries :
          (wire[i].fn \in HedgeOps /\ AnsweredAs(i, NO_NEED_TO_CHANGE_PS)) =>
              /\ i = Len(wire)
              /\ proc \in {"running", "returned"}
              /\ proc = "returned" => result = Str(NO_NEED_TO_CHANGE_PS)

\* C19 witness: activate_hedge_mode was answered E06 and returned it.
C19_Witness ==
    /\ proc = "returned"
    /\ result = Str(NO_NEED_TO_CHANGE_PS)
    /\ Len(wire) > 0
    /\ wire[Len(wire)].fn = "activate_hedge_mode"
    /\ AnsweredAs(Len(wire), NO_NEED_TO_CHANGE_PS)

ImmediateTriggerMessage == <<"Order would immediately trigger", ".">>

\* the phrases tested with contains, in the order of the chain
ContainedPhrases ==
    << <<"502 Bad Gateway">>, <<"ReduceOnly Order is rejected">>,
       <<"No need to change position side">>, <<"No such host is known", ".">>,
       <<"Timestamp for this request is outside of the recvWindow", ".">> >>

MatchesNoPhrase(m) ==
    /\ m # ImmediateTriggerMessage
    /\ \A n \in 1..Len(ContainedPhrases) : ~Contains(m, ContainedPhrases[n])

AllKinds ==
    {ORDER_WOULD_TRIGGER_IMMEDIATELY, ERROR_NOT_MAPPED, ERROR_SERVER_502,
     ERROR_NOTHING_TO_CLOSE, NO_NEED_TO_CHANGE_PS, DNS_ERROR, RECVWINDOW_ERROR}

\* a frame of error_handler that has classified message m as kind
ClassifiedAs(k, m, kind) ==
    /\ stack[k].fn = "error_handler" /\ stack[k].pc = "ret"
    /\ stack[k].response.msg = m
    /\ stack[k].ret = Str(kind)

\* the frame of error_handler k is done with a JSON body
ClassifiedFrame(k) ==
    stack[k].fn = "error_handler" /\ stack[k].pc = "ret" /\ stack[k].response.json

\* C20 (as stated): every message gets one kind; the E01 message gets E01, a
\* message containing "502 Bad Gateway" E03, a message containing "ReduceOnly
\* Order is rejected" E05, a message matching no phrase E02.
C20_ClassificationByPhrase ==
    \A k \in Frames :
        ClassifiedFrame(k) =>
            LET m == stack[k].response.msg IN
            /\ \E kind \in AllKinds : stack[k].ret = Str(kind)
            /\ m = ImmediateTriggerMessage =>
                  stack[k].ret = Str(ORDER_WOULD_TRIGGER_IMMEDIATELY)
            /\ Contains(m, <<"502 Bad Gateway">>) => stack[k].ret = Str(ERROR_SERVER_502)
            /\ Contains(m, <<"ReduceOnly Order is rejected">>) =>
                  stack[k].ret = Str(ERROR_NOTHING_TO_CLOSE)
            /\ MatchesNoPhrase(m) => stack[k].ret = Str(ERROR_NOT_MAPPED)

\* C20 (amended): the same, but a message containing "ReduceOnly Order is
\* rejected" gets E05 only when it does not contain "502 Bad Gateway" too:
\* the first phrase of the chain that matches decides.
C20_ClassificationByFirstPhrase ==
    \A k \in Frames :
        ClassifiedFrame(k) =>
            LET m == stack[k].response.msg IN
            /\ \E kind \in AllKinds : stack[k].ret = Str(kind)
            /\ m = ImmediateTriggerMessage =>
                  stack[k].ret = Str(ORDER_WOULD_TRIGGER_IMMEDIATELY)
            /\ Contains(m, <<"502 Bad Gateway">>) => stack[k].ret = Str(ERROR_SERVER_502)
            /\ (Contains(m, <<"ReduceOnly Order is rejected">>)
                  /\ ~Contains(m, <<"502 Bad Gateway">>)) =>
                  stack[k].ret = Str(ERROR_NOTHING_TO_CLOSE)
            /\ MatchesNoPhrase(m) => stack[k].ret = Str(ERROR_NOT_MAPPED)

\* C20 witness: "502 Bad Gateway reached" was classified E03.
C20_Witness ==
    \E k \in Frames :
        ClassifiedAs(k, <<"502 Bad Gateway", "reached">>, ERROR_SERVER_502)

RecvWindowPhrase == "Timestamp for this request is outside of the recvWindow"

\* C21 (as stated): a message that contains "Order would immediately trigger"
\* is classified E01 and a message that contains "Timestamp for this request
\* is outside of the recvWindow" is classified E08, whatever precedes or
\* follows the phrase.
C21_ClassificationBySubstring ==
    \A k \in Frames :
        ClassifiedFrame(k) =>
            LET m == stack[k].response.msg IN
            /\ Contains(m, <<"Order would immediately trigger">>) =>
                  stack[k].ret = Str(ORDER_WOULD_TRIGGER_IMMEDIATELY)
            /\ Contains(m, <<RecvWindowPhrase>>) =>
                  stack[k].ret = Str(RECVWINDOW_ERROR)

\* C21 (amended): a message is classified E01 exactly when it is "Order would
\* immediately trigger." and nothing else, and E08 exactly when it contains
\* "Timestamp for this request is outside of the recvWindow." with its full
\* stop, is not the E01 message and contains none of the four phrases tested
\* before it.
C21_ClassificationByExactPhrase ==
    \A k \in Frames :
        ClassifiedFrame(k) =>
            LET m == stack[k].response.msg IN
            /\ (stack[k].ret = Str(ORDER_WOULD_TRIGGER_IMMEDIATELY))
                  <=> (m = ImmediateTriggerMessage)
            /\ (stack[k].ret = Str(RECVWINDOW_ERROR))
                  <=> /\ Contains(m, <<RecvWindowPhrase, ".">>)
                      /\ m # ImmediateTriggerMessage
                      /\ \A n \in 1..4 : ~Contains(m, ContainedPhrases[n])

\* C21 witness: "Order would immediately trigger. reached" was classified E02.
C21_Witness ==
    \E k \in Frames :
        ClassifiedAs(k, <<"Order would immediately trigger", ".", "reached">>,
                     ERROR_NOT_MAPPED)

\* the request carries a signature parameter
Signed(req) == req.signature # NoSignature

\* C22 (as stated): every signed request put on the wire has a query string
\* with a timestamp and recvWindow=50000, and its signature is the digest of
\* exactly that query string.
C22_SignedRequestsCarryTimestampAndWindow ==
    \A i \in Entries :
        Signed(wire[i].req) =>
            /\ wire[i].req.params.timestamp >= 0
            /\ wire[i].req.params.recvWindow = RECV_WINDOW
            /\ wire[i].req.signature = get_signature(wire[i].req.params)

----------------------------------------------------------------------------
(* Properties of the candle resampling                                     *)

\* the requested interval in seconds
BucketSeconds(a) ==
    CASE a.period = "m" -> a.length * 60
      [] a.period = "h" -> a.length * 3600
      [] a.period = "d" -> a.length * 86400

\* seconds between two base candles of an entry point
BaseSeconds(fn) ==
    IF fn \in {"get_candle_info", "get_candle_info_max_value",
               "get_candle_info_min_value"} THEN 60 ELSE 3600

\* base candles per bucket of the requested interval
PerBucket(fn, a) == BucketSeconds(a) \div BaseSeconds(fn)

CloseOnlyOps == {"get_candle_info", "build_candle_w_1hr_close_price"}
HighOnlyOps == {"get_candle_info_max_value", "build_candle_w_1hr_max_price"}
LowOnlyOps == {"get_candle_info_min_value", "build_candle_w_1hr_min_price"}

\* frame k is an entry point whose fetch succeeded and that is done
Scanned(k) ==
    /\ stack[k].fn \in ResamplerOps
    /\ stack[k].pc \in {"ret", "dead"}
    /\ stack[k].rv.tag = "ok"

\* frame k is an entry point that returned Ok(candles) for the series it fetched
Resampled(k) == Scanned(k) /\ stack[k].pc = "ret" /\ stack[k].ret.tag = "ok"

Series(k) == stack[k].rv.data.rows
Buckets(k) == stack[k].ret.data.candles

\* entry i of the series opens a bucket of the requested interval
OpensBucket(k, i) == (Series(k)[i].date \div 1000) % BucketSeconds(stack[k].args) = 0

\* the index in the series of the j-th bucket opening (0 when the series has
\* no opening); the series is contiguous, so openings are PerBucket apart
Opening(k, j) ==
    IF \E i \in 1..Len(Series(k)) : OpensBucket(k, i)
    THEN (CHOOSE i \in 1..Len(Series(k)) :
              OpensBucket(k, i) /\ \A h \in 1..(i - 1) : ~OpensBucket(k, h))
         + (j - 1) * PerBucket(stack[k].fn, stack[k].args)
    ELSE 0

\* the opening of the bucket the j-th returned value stands for: the close-only
\* entry points return from the first opening on, the others drop the first
OpeningOfValue(k, j) ==
    IF stack[k].fn \in CloseOnlyOps THEN Opening(k, j) ELSE Opening(k, j + 1)

\* the entries of the series whose open time lies in the bucket opening at b
InBucket(k, b) ==
    {i \in 1..Len(Series(k)) :
        i >= b /\ i < b + PerBucket(stack[k].fn, stack[k].args)}

\* C23: for a one-minute series of k*n candles that starts on a bucket
\* boundary, get_candle_info returns k values and the j-th is the close of
\* the last candle of bucket j.
C23_AlignedSeriesGivesBucketCloses ==
    \A k \in Frames :
        (Resampled(k) /\ stack[k].fn = "get_candle_info"
            /\ Len(Series(k)) > 0 /\ OpensBucket(k, 1)
            /\ Len(Series(k)) % PerBucket(stack[k].fn, stack[k].args) = 0) =>
            LET n == PerBucket(stack[k].fn, stack[k].args) IN
            /\ Len(Buckets(k)) = Len(Series(k)) \div n
            /\ \A j \in 1..Len(Buckets(k)) :
                  Buckets(k)[j] = KlineData(Series(k)[j * n].date).close

\* C23 witness: get_candle_info(2, "5m") got 10 candles that start on a
\* 300-second boundary and returned the closes of the 5th and the 10th.
C23_Witness ==
    \E k \in Frames :
        /\ Resampled(k) /\ stack[k].fn = "get_candle_info"
        /\ stack[k].args = CandleArgs(2, 5, "m")
        /\ Len(Series(k)) = 10 /\ OpensBucket(k, 1)
        /\ Buckets(k) = <<KlineData(Series(k)[5].date).close,
                          KlineData(Series(k)[10].date).close>>
        /\ Buckets(k)[1] # KlineData(Series(k)[1].date).close

\* C24 (as stated): an entry point returns exactly `quantity` values for the
\* series it fetched, whatever the offset of the series to the bucket
\* boundaries.
C24_ReturnsQuantityValues ==
    \A k \in Frames :
        (Scanned(k) /\ stack[k].fn # "build_candle_w_1hr_close_price") =>
            /\ stack[k].pc = "ret"
            /\ Len(Buckets(k)) = stack[k].args.quantity

C26_ExtremesOfTheBucket ==
    \A k \in Frames :
        (Resampled(k) /\ stack[k].fn \in HighOnlyOps \cup LowOnlyOps) =>
            \A j \in 1..Len(Buckets(k)) :
                LET members == InBucket(k, OpeningOfValue(k, j)) IN
                /\ members # {}
                /\ IF stack[k].fn \in HighOnlyOps
                   THEN /\ \E i \in members :
                              Buckets(k)[j] = KlineData(Series(k)[i].date).high
                        /\ \A i \in members :
                              Buckets(k)[j] >= KlineData(Series(k)[i].date).high
                   ELSE /\ \E i \in members :
                              Buckets(k)[j] = KlineData(Series(k)[i].date).low
                        /\ \A i \in members :
                              Buckets(k)[j] <= KlineData(Series(k)[i].date).low

\* C27 (as stated): in every entry point and for every unit it accepts, the
\* scan opens a bucket at an entry exactly when its open time in seconds is a
\* multiple of the requested interval in seconds.
C27_BucketOpensOnIntervalBoundary ==
    \A k \in Frames :
        Scanned(k) =>
            \A i \in 1..Len(Series(k)) :
                ((Series(k)[i].date \div 1000)
                    % bucket_modulus(stack[k].fn, stack[k].args.quantity,
                                     stack[k].args.length, stack[k].quantity) = 0)
                <=> OpensBucket(k, i)

\* C28 (as stated): the number of base candles an entry point asks its fetch
\* function for is (quantity + pad) * bucketMinutes with pad 1 or 2.
C28_FetchIsPadded ==
    \A k \in Frames :
        (stack[k].fn \in ResamplerOps /\ stack[k].pc \in {"fetched", "ret"}) =>
            LET bucketMinutes == BucketSeconds(stack[k].args) \div 60 IN
            /\ \E pad \in {1, 2} :
                  stack[k].quantity = (stack[k].args.quantity + pad) * bucketMinutes
            /\ k < Len(stack) => stack[k + 1].args.quantity = stack[k].quantity

\* frame k is an entry point whose fetch returned a failure and that is done
FetchFailed(k) ==
    /\ stack[k].fn \in ResamplerOps
    /\ stack[k].pc \in {"ret", "dead"}
    /\ stack[k].rv.tag = "err"

\* C29 (as stated): an entry point whose fetch failed returns the fetch's
\* failure value unchanged.
C29_FailureReturnedUnchanged ==
    \A k \in Frames :
        FetchFailed(k) => stack[k].pc = "ret" /\ stack[k].ret = stack[k].rv

\* C29 (amended): an entry point whose fetch failed returns a failure and no
\* buckets: build_candle_w_1hr_close_price the fetch's failure value, the
\* others a fixed message in its place.
C29_FailureReturnedAsFailure ==
    \A k \in Frames :
        FetchFailed(k) =>
            /\ stack[k].pc = "ret"
            /\ stack[k].ret =
                  ErrV(CASE stack[k].fn = "build_candle_w_1hr_close_price" -> stack[k].rv.s
                         [] stack[k].fn \in {"get_candle_info", "get_candle_info_max_value"} ->
                               "Failed to retrieve candles"
                         [] OTHER -> "Failed to retrieve 1-hour candles")

\* C29 witness: get_some_1m_candle returned E03 and get_candle_info returned
\* "Failed to retrieve candles".
C29_Witness ==
    \E k \in Frames :
        /\ FetchFailed(k) /\ stack[k].fn = "get_candle_info"
        /\ stack[k].rv = ErrV(ERROR_SERVER_502)
        /\ stack[k].ret = ErrV("Failed to retrieve candles")

\* C30: a one-minute fetch function that was answered 200 with the candles of
\* its window returns exactly `quantity` entries, in ascending order of open
\* time and 60,000 ms apart.
C30_FetchReturnsQuantityMinutes ==
    \A k \in Frames :
        (stack[k].fn \in MinuteFetchOps /\ stack[k].pc \in {"ret", "dead"}
            /\ stack[k].response.status = 200) =>
            /\ stack[k].pc = "ret" /\ stack[k].ret.tag = "ok"
            /\ LET rows == stack[k].ret.data.rows IN
               /\ Len(rows) = stack[k].args.quantity
               /\ \A i \in 2..Len(rows) :
                     rows[i].date = rows[i - 1].date + ONE_MIN_IN_MILLISECONDS

\* C30 witness: get_some_1m_candle(10) called exactly on a minute boundary
\* returned 10 entries.
C30_Witness ==
    \E k \in Frames :
        /\ stack[k].fn = "get_some_1m_candle" /\ stack[k].pc = "ret"
        /\ stack[k].args.quantity = 10
        /\ stack[k].request.params.endTime % ONE_MIN_IN_MILLISECONDS = 0
        /\ stack[k].ret.tag = "ok"
        /\ Len(stack[k].ret.data.rows) = 10

----------------------------------------------------------------------------
(* Properties of the account report, the retries and the stored order id   *)

KnownSides == {"SHORT", "LONG", "BOTH"}

\* the frame is one of account_trade_info that has got a position-risk
\* response from position_info
PositionsSeen(k) ==
    /\ stack[k].fn = "account_trade_info"
    /\ stack[k].pc # "positions"
    /\ \/ stack[k].rv.data.kind = "positions"
       \/ stack[k].pc \in {"ret", "dead"} /\ Len(wire) > 0
             /\ wire[Len(wire)].fn = "binance_open_orders"

\* C31 (as stated): account_trade_info ends the process with a non-zero status
\* when the first entry of the position-risk response has a positionSide other
\* than SHORT, LONG or BOTH, and for each of those three values it goes on to
\* the open-order count and returns without ending the process.
C31_MonitorEndsOnUnknownSideOnly ==
    \A k \in Frames :
        PositionsSeen(k) =>
            IF stack[k].rv.data.kind = "positions"
                  /\ stack[k].rv.data.sides[1] \notin KnownSides
            THEN stack[k].pc = "dead" /\ proc = "exited" /\ exit_code # 0
            ELSE stack[k].pc \in {"orders", "ret"} /\ proc \in {"running", "returned"}

\* the last request put on the wire was answered E07 or E08 and the function
\* that sent it reads its response
LastAnswerIsRetry ==
    /\ wire # <<>>
    /\ \E kind \in RetryKinds : AnsweredAs(Len(wire), kind)
    /\ wire[Len(wire)].fn # "cancel_all_open_orders_without_error_check"

\* the frames k..Len(stack) are invocations of one function with the same
\* arguments, each but the last re-invoking the next after an E07 or E08
ReInvocationChain(k) ==
    \A m \in k..Len(stack) :
        /\ stack[m].fn = stack[k].fn /\ stack[m].args = stack[k].args
        /\ m < Len(stack) => stack[m].error \in RetryKinds /\ stack[m].pc = "tail"

StoringOps == OrderOps \cup {CancelAndReplace}

\* the value behind the reference when the strategy made the call
RefAtCall(top) == (CHOOSE c \in Calls : c.fn = top.fn /\ c.args = top.args).ref

\* requests of an order function that were answered 200
AcceptedEntries ==
    {i \in Entries : wire[i].fn \in OrderOps /\ wire[i].outcome.status = 200}

\* C33: last_order_id is written only with the orderId of a 200 response to
\* an order function; a call that returns "200 OK" leaves there the orderId of
\* the last such response, and a call of new_order, new_order_limit,
\* new_order_market or cancel-and-replace that returns E03 leaves the value it
\* had at call time.
C33_OrderIdWrittenOnAcceptanceOnly ==
    wire # <<>> =>
        LET top == wire[1].top
            ref == RefAtCall(top)
        IN  /\ last_order_id # ref =>
                  \E i \in AcceptedEntries : wire[i].outcome.orderId = last_order_id
            /\ (top.fn \in StoringOps /\ proc = "returned") =>
                  /\ result = Str(ERROR_SERVER_502) =>
                        AcceptedEntries = {} /\ last_order_id = ref
                  /\ result = Str(StatusOkString) =>
                        \E i \in AcceptedEntries :
                            /\ wire[i].outcome.orderId = last_order_id
                            /\ \A j \in AcceptedEntries : j <= i

\* C33 witness: the cancel of order 7 got 200, the stop order that was to
\* replace it was answered 502, and the call returned E03 with last_order_id
\* still 7.
C33_Witness ==
    /\ proc = "returned" /\ result = Str(ERROR_SERVER_502)
    /\ \E i, j \in Entries :
          /\ i < j
          /\ wire[i].fn = CancelAndReplace /\ wire[i].outcome.status = 200
          /\ wire[i].req.params.orderId = last_order_id
          /\ wire[j].fn = "new_order" /\ AnsweredAs(j, ERROR_SERVER_502)
          /\ wire[j].top.fn = CancelAndReplace

\* the request of entry i is a cancel sent by cancel-and-replace
CancelSent(i) ==
    /\ wire[i].fn = CancelAndReplace
    /\ wire[i].req.method = "DELETE" /\ wire[i].req.path = "/fapi/v1/order"

\* C34: once the cancel of a cancel-and-replace got 200, no cancel is sent
\* again in that invocation: whatever is answered to the stop order, the
\* requests that follow are made by new_order and the functions it calls.
C34_CancelSucceedsAtMostOnce ==
    \A i, j \in Entries :
        (CancelSent(i) /\ wire[i].outcome.status = 200 /\ i < j) =>
            /\ wire[j].fn # CancelAndReplace
            /\ ~(wire[j].req.method = "DELETE" /\ wire[j].req.path = "/fapi/v1/order")
            /\ wire[j].depth > wire[i].depth

\* C34 witness: the cancel got 200, the stop order was answered E07 or E08 and
\* new_order, called again, submitted the stop order a second time.
C34_Witness ==
    \E i, j, m \in Entries :
        /\ i < j /\ j < m
        /\ CancelSent(i) /\ wire[i].outcome.status = 200
        /\ wire[j].fn = "new_order" /\ wire[j].outcome.error \in RetryKinds
        /\ wire[m].fn = "new_order" /\ wire[m].depth = wire[j].depth + 1
        /\ wire[m].req.method = "POST"
        /\ Cardinality({c \in Entries : CancelSent(c)}) = 1

----------------------------------------------------------------------------
(* Properties of the query strings and of the classification, continued    *)

\* C35: the positionSide new_order and new_order_limit format is LONG exactly
\* for Some("LONG"), BOTH exactly for None and SHORT for every other Some
\* value, Some("BOTH") included; close_position formats LONG and SHORT for
\* Some("LONG") and Some("SHORT") and BOTH for None and every other Some value.
C35_PositionSideSent ==
    \A k \in Frames :
        LET ps == stack[k].args.position_side
            sent == stack[k].request.params.positionSide
        IN  /\ (Formatted(k, "new_order") \/ Formatted(k, "new_order_limit")) =>
                  /\ sent = "LONG" <=> ps = "LONG"
                  /\ sent = "BOTH" <=> ps = "None"
                  /\ sent = "SHORT" <=> ps \notin {"LONG", "None"}
            /\ Formatted(k, "close_position") =>
                  /\ sent = "LONG" <=> ps = "LONG"
                  /\ sent = "SHORT" <=> ps = "SHORT"
                  /\ sent = "BOTH" <=> ps \notin {"LONG", "SHORT"}

\* C35 witness: new_order called with Some("BOTH") formatted positionSide=SHORT.
C35_Witness ==
    \E k \in Frames :
        /\ Formatted(k, "new_order")
        /\ stack[k].args.position_side = "BOTH"
        /\ stack[k].request.params.positionSide = "SHORT"

\* C36: the query string new_order formats carries reduceOnly, with the
\* caller's is_reduce_only, exactly when the positionSide it sends is BOTH; for
\* LONG and SHORT it has no reduceOnly parameter whatever the caller passed.
C36_ReduceOnlySentForBothOnly ==
    \A k \in Frames :
        Formatted(k, "new_order") =>
            stack[k].request.params.reduceOnly =
                IF stack[k].request.params.positionSide = "BOTH"
                THEN BoolStr(stack[k].args.is_reduce_only)
                ELSE "-"

\* C36 witness: new_order called with is_reduce_only = true and Some("LONG")
\* formatted a query string without reduceOnly.
C36_Witness ==
    \E k \in Frames :
        /\ Formatted(k, "new_order")
        /\ stack[k].args.is_reduce_only
        /\ stack[k].args.position_side = "LONG"
        /\ stack[k].request.params.positionSide = "LONG"
        /\ stack[k].request.params.reduceOnly = "-"

\* the kinds of ContainedPhrases, in the same order
ContainedKinds ==
    <<ERROR_SERVER_502, ERROR_NOTHING_TO_CLOSE, NO_NEED_TO_CHANGE_PS, DNS_ERROR,
      RECVWINDOW_ERROR>>

\* the phrases tested with contains that message m contains
Matching(m) == {n \in 1..Len(ContainedPhrases) : Contains(m, ContainedPhrases[n])}

\* C37: a message is classified by the first test of the chain that it passes:
\* equality with the E01 message, then containment of the 502, reduce-only,
\* position-side, DNS and recvWindow phrases in that order, else E02. So a
\* message that contains "502 Bad Gateway" and a retryable phrase is E03, a
\* kind that is not retried.
C37_FirstMatchInFixedOrder ==
    \A k \in Frames :
        ClassifiedFrame(k) =>
            LET m == stack[k].response.msg IN
            /\ stack[k].ret =
                  Str(IF m = ImmediateTriggerMessage THEN ORDER_WOULD_TRIGGER_IMMEDIATELY
                      ELSE IF Matching(m) = {} THEN ERROR_NOT_MAPPED
                      ELSE ContainedKinds[CHOOSE n \in Matching(m) :
                                             \A o \in Matching(m) : n <= o])
            /\ ({1, 4} \subseteq Matching(m) \/ {1, 5} \subseteq Matching(m)) =>
                  /\ stack[k].ret = Str(ERROR_SERVER_502)
                  /\ ~Retryable(stack[k].ret.s)

\* C37 witness: "No such host is known. 502 Bad Gateway" was classified E03.
C37_Witness ==
    \E k \in Frames :
        ClassifiedAs(k, <<"No such host is known", ".", "502 Bad Gateway">>,
                     ERROR_SERVER_502)

----------------------------------------------------------------------------
(* Properties of the exchange client, continued                            *)

\* the request of entry i got a failed response whose body is not an object
\* with a code and a msg, sent by a function that calls error_handler
UndecodableAnswer(i) ==
    /\ wire[i].outcome.kind = "response"
    /\ wire[i].outcome.status # 200
    /\ wire[i].outcome.error = "panic"
    /\ wire[i].fn # "cancel_all_open_orders_without_error_check"

Completed == proc \in {"returned", "exited", "panicked"}

\* frame k waits for a call of its own function that it made after it had
\* classified a failed response
ReInvoking(k) ==
    /\ k < Len(stack)
    /\ stack[k].pc \in {"tail", "discard"}
    /\ stack[k + 1].fn = stack[k].fn
    /\ stack[k].error # ""

\* C39 (as stated): when the transport fails and the exchange answers E07 or
\* E08 only finitely often, every operation completes: it returns or the
\* process ends. For that, a request is sent again only after a transport
\* failure, and a function calls itself again only after an E07 or E08 answer.
C39_EveryOperationCompletes ==
    /\ [](\A i \in Entries : wire[i].resend => wire[i - 1].outcome.kind = "lost")
    /\ [](\A k \in Frames : ReInvoking(k) => stack[k].error \in RetryKinds)
    /\ <>Completed

\* the frame is one of account_trade_info that has read the position-risk
\* response it still holds
PositionsRead(k) ==
    /\ stack[k].fn = "account_trade_info"
    /\ stack[k].pc # "positions"
    /\ stack[k].rv.data.kind = "positions"

\* C40: account_trade_info unwraps the second entry of the position-risk
\* response before it reads positionSide: on a response of fewer than two
\* entries the process ends in a panic, whatever the positionSide, and the
\* operation that called the report returns nothing; the report of a BOTH
\* position is made only for a response of two or more entries.
C40_MonitorNeedsTwoEntries ==
    \A k \in Frames :
        PositionsRead(k) =>
            LET sides == stack[k].rv.data.sides IN
            /\ Len(sides) < 2 =>
                  /\ stack[k].pc = "dead"
                  /\ proc = "panicked" /\ exit_code # 0
                  /\ result = NoVal
                  /\ \A c \in 1..(k - 1) : stack[c].pc \notin {"ret", "dead"}
            /\ stack[k].pc = "orders" =>
                  Len(sides) >= 2 /\ sides[1] \in KnownSides

\* C40 witness: the exchange accepted the order of new_order_market, the
\* position-risk response had the one entry of one-way mode, and the process
\* ended before new_order_market looked at its response.
C40_Witness ==
    /\ proc = "panicked"
    /\ Len(stack) = 2
    /\ stack[1].fn = "new_order_market" /\ stack[1].pc = "handle"
    /\ stack[1].response.status = 200
    /\ PositionsRead(2)
    /\ stack[2].rv.data.sides = <<"BOTH">>
    /\ stack[2].pc = "dead"

====
